---- MODULE Spec2Model ----
(***************************************************************************)
(* HAllocator: best-fit arena allocator (hh::halloc) over an intrusive     *)
(* red-black tree of free regions (hh::rb_tree).                           *)
(*                                                                         *)
(* Memory is a function from the address of a MemoryNode header to its six *)
(* fields.  The metadata word `value` keeps its packed layout: the top bit *)
(* is the colour, the next one the used flag, the rest the size.  The word *)
(* is WordBits wide; the source's std::size_t has 64 bits, the model keeps *)
(* the same layout in a narrower word.                                     *)
(***************************************************************************)
EXTENDS Integers, FiniteSets, Sequences, TLC

\* ------------------------------------------------------------------------
\* Program constants and model bounds
\* ------------------------------------------------------------------------

\* sizeof(MemoryNode): five pointers and one size_t
MEMORY_NODE_SIZE == 48

\* values of the template parameter BlockSize the pools are built with
Capacity == 512

ScenarioCapacity == 1024

\* template parameter MaxNumBlocks
MaxNumBlocks == 2

\* the small request of the client
SmallReq == 24

\* allocations the client of the pool of ScenarioCapacity holds at a time
ScenarioMaxLive == 2

\* width of the metadata word in the model
WordBits == 16

\* distance between two addresses mmap may return
MapStride == 4096

\* largest number of allocations the client keeps live at once
MaxLive == 3

\* nodes of the tree driven directly through insert/remove
MaxTreeNodes == 6

\* Halloc objects the client holds at once
MaxFacades == 3

\* default constructions of a Halloc in a run
MaxPools == 2

\* allocations the client of the Halloc objects holds at a time
FacadeMaxLive == 1

\* sizeof(T) of the element type of the Halloc objects
SizeofT == 8

NULL == 0

\* returned index of BlocksContainer::best_fit when nothing fits
NO_INDEX == -1

COLOR_BIT == 2 ^ (WordBits - 1)

USED_BIT == 2 ^ (WordBits - 2)

\* ------------------------------------------------------------------------
\* rb-tree.hpp: colour helpers on the metadata word
\* ------------------------------------------------------------------------

is_red(value) == (value \div COLOR_BIT) % 2 = 1

is_black(value) == (value \div COLOR_BIT) % 2 = 0

\* mutant of set_color_red: the word is replaced by the colour bit
set_color_red_drops_size(value) == COLOR_BIT

set_color_red(value) == IF is_red(value) THEN value ELSE value + COLOR_BIT

set_color_black(value) == IF is_red(value) THEN value - COLOR_BIT ELSE value

get_value(value) == IF is_red(value) THEN value - COLOR_BIT ELSE value

get_color(value) == is_red(value)

\* ------------------------------------------------------------------------
\* Block.ipp: used flag and size helpers
\* ------------------------------------------------------------------------

is_free(value) == (value \div USED_BIT) % 2 = 0

\* mutant of mark_as_used: the flag is never set
mark_as_used_noop(value) == value

mark_as_used(value) == IF is_free(value) THEN value + USED_BIT ELSE value

mark_as_free(value) == IF is_free(value) THEN value ELSE value - USED_BIT

get_actual_value(value) == value % USED_BIT

\* ------------------------------------------------------------------------
\* rb-tree.hpp.  A tree is a record [m, root]: the memory and the root
\* pointer the functions take by reference.  One operator per statement
\* kind; a function applies them in the order of its statements.
\* ------------------------------------------------------------------------

\* n->left = v
set_left(h, n, v) == [h EXCEPT !.m[n].left = v]

\* n->right = v
set_right(h, n, v) == [h EXCEPT !.m[n].right = v]

\* n->parent = v
set_parent(h, n, v) == [h EXCEPT !.m[n].parent = v]

\* if (n) n->parent = v
set_parent_if(h, n, v) == IF n # NULL THEN set_parent(h, n, v) ELSE h

\* if (!np) root = child; else if (node == np->left) np->left = child;
\* else np->right = child
replace_child(h, np, node, child) ==
    IF np = NULL
    THEN [h EXCEPT !.root = child]
    ELSE IF node = h.m[np].left
         THEN set_left(h, np, child)
         ELSE set_right(h, np, child)

left_rotate(h, node) ==
    LET right_child == h.m[node].right
        inner == h.m[right_child].left
        np == h.m[node].parent
    IN  set_parent(
        set_left(
        replace_child(
        set_parent(
        set_parent_if(
        set_right(h, node, inner),
            inner, node),
            right_child, np),
            np, node, right_child),
            right_child, node),
            node, right_child)

right_rotate(h, node) ==
    LET left_child == h.m[node].left
        inner == h.m[left_child].right
        np == h.m[node].parent
    IN  set_parent(
        set_right(
        replace_child(
        set_parent(
        set_parent_if(
        set_left(h, node, inner),
            inner, node),
            left_child, np),
            np, node, left_child),
            left_child, node),
            node, left_child)

\* the three recolourings of the uncle-red case
recolor_uncle_red(h, y, p, g) ==
    [h EXCEPT !.m = [h.m EXCEPT ![y].value = set_color_black(@),
                                ![p].value = set_color_black(@),
                                ![g].value = set_color_red(@)]]

\* mutant of recolor_parent_grandparent: the grandparent keeps its colour
recolor_parent_only(h, z) ==
    LET p == h.m[z].parent
    IN  [h EXCEPT !.m = [h.m EXCEPT ![p].value = set_color_black(@)]]

\* set_color_black(z->parent->value); set_color_red(z->parent->parent->value)
recolor_parent_grandparent(h, z) ==
    LET p == h.m[z].parent
        g == h.m[p].parent
    IN  [h EXCEPT !.m = [h.m EXCEPT ![p].value = set_color_black(@),
                                    ![g].value = set_color_red(@)]]

\* right_rotate(root, z->parent->parent)
right_rotate_grandparent(h, z) == right_rotate(h, h.m[h.m[z].parent].parent)

\* left_rotate(root, z->parent->parent)
left_rotate_grandparent(h, z) == left_rotate(h, h.m[h.m[z].parent].parent)

\* set_color_black(root->value)
blacken_root(h) == [h EXCEPT !.m[h.root].value = set_color_black(@)]

RECURSIVE fix_insert(_, _)
fix_insert(h, z) ==
    LET p == h.m[z].parent IN
    IF p # NULL /\ is_red(h.m[p].value)
    THEN LET g == h.m[p].parent IN
         IF p = h.m[g].left
         THEN LET y == h.m[g].right IN
              IF y # NULL /\ is_red(h.m[y].value)
              THEN fix_insert(recolor_uncle_red(h, y, p, g), g)
              ELSE IF z = h.m[p].right
                   THEN fix_insert(
                            right_rotate_grandparent(
                                recolor_parent_grandparent(left_rotate(h, p), p), p), p)
                   ELSE fix_insert(
                            right_rotate_grandparent(
                                recolor_parent_grandparent(h, z), z), z)
         ELSE LET y == h.m[g].left IN
              IF y # NULL /\ is_red(h.m[y].value)
              THEN fix_insert(recolor_uncle_red(h, y, p, g), g)
              ELSE IF z = h.m[p].left
                   THEN fix_insert(
                            left_rotate_grandparent(
                                recolor_parent_grandparent(right_rotate(h, p), p), p), p)
                   ELSE fix_insert(
                            left_rotate_grandparent(
                                recolor_parent_grandparent(h, z), z), z)
    ELSE blacken_root(h)

\* the descent of insert: the last node visited (y), NULL for an empty tree
RECURSIVE insert_descend(_, _, _, _)
insert_descend(m, x, y, new_val) ==
    IF x = NULL THEN y
    ELSE IF new_val < get_value(m[x].value)
         THEN insert_descend(m, m[x].left, x, new_val)
         ELSE insert_descend(m, m[x].right, x, new_val)

\* if (!y) root = new_node; else if (new_val < get_value(y->value))
\* y->left = new_node; else y->right = new_node
attach_leaf(h, y, new_node, new_val) ==
    IF y = NULL
    THEN [h EXCEPT !.root = new_node]
    ELSE IF new_val < get_value(h.m[y].value)
         THEN set_left(h, y, new_node)
         ELSE set_right(h, y, new_node)

\* new_node->left = nullptr; new_node->right = nullptr; set_color_red
make_red_leaf(h, new_node) ==
    [h EXCEPT !.m[new_node] = [@ EXCEPT !.left = NULL, !.right = NULL,
                                        !.value = set_color_red(@)]]

insert(h, new_node) ==
    LET new_val == get_value(h.m[new_node].value)
        y == insert_descend(h.m, h.root, NULL, new_val)
    IN  fix_insert(
            make_red_leaf(
                attach_leaf(set_parent(h, new_node, y), y, new_node, new_val),
                new_node),
            new_node)

\* mutant of transplant: v is linked under u's parent, v's parent is unset
transplant_keeps_parent(h, u, v) == replace_child(h, h.m[u].parent, u, v)

transplant(h, u, v) ==
    set_parent_if(replace_child(h, h.m[u].parent, u, v), v, h.m[u].parent)

\* w takes the colour of x_parent
copy_color(h, w, x_parent) ==
    IF get_color(h.m[x_parent].value)
    THEN [h EXCEPT !.m[w].value = set_color_red(@)]
    ELSE [h EXCEPT !.m[w].value = set_color_black(@)]

\* if (n) set_color_black(n->value)
set_black_at(h, n) ==
    IF n # NULL THEN [h EXCEPT !.m[n].value = set_color_black(@)] ELSE h

\* set_color_red(n->value)
set_red_at(h, n) == [h EXCEPT !.m[n].value = set_color_red(@)]

\* n == nullptr || is_black(n->value)
black_or_null(m, n) == n = NULL \/ is_black(m[n].value)

\* x is the left child, the sibling w is red: recolour and rotate it up
red_sibling_on_right(h, x_parent) ==
    LET w == h.m[x_parent].right
    IN  IF is_red(h.m[w].value)
        THEN left_rotate(set_red_at(set_black_at(h, w), x_parent), x_parent)
        ELSE h

\* x is the left child, the far child of w is black: rotate the near one up
near_nephew_on_right(h, x_parent) ==
    LET w == h.m[x_parent].right
    IN  IF black_or_null(h.m, h.m[w].right)
        THEN right_rotate(set_red_at(set_black_at(h, h.m[w].left), w), w)
        ELSE h

\* x is the left child, the far child of w is red: the final rotation
far_nephew_on_right(h, x_parent) ==
    LET w == h.m[x_parent].right
    IN  left_rotate(
            set_black_at(
                set_black_at(copy_color(h, w, x_parent), x_parent),
                h.m[w].right),
            x_parent)

\* the mirror images, x the right child
red_sibling_on_left(h, x_parent) ==
    LET w == h.m[x_parent].left
    IN  IF is_red(h.m[w].value)
        THEN right_rotate(set_red_at(set_black_at(h, w), x_parent), x_parent)
        ELSE h

near_nephew_on_left(h, x_parent) ==
    LET w == h.m[x_parent].left
    IN  IF black_or_null(h.m, h.m[w].left)
        THEN left_rotate(set_red_at(set_black_at(h, h.m[w].right), w), w)
        ELSE h

far_nephew_on_left(h, x_parent) ==
    LET w == h.m[x_parent].left
    IN  right_rotate(
            set_black_at(
                set_black_at(copy_color(h, w, x_parent), x_parent),
                h.m[w].left),
            x_parent)

RECURSIVE fix_remove(_, _, _)
\* x = root: the next test of the loop ends it
fix_remove_at_root(h, x_parent) == fix_remove(h, h.root, x_parent)

fix_remove(h, x, x_parent) ==
    IF x # h.root /\ (x = NULL \/ is_black(h.m[x].value))
    THEN IF x = (IF x_parent # NULL THEN h.m[x_parent].left ELSE NULL)
         THEN LET h1 == red_sibling_on_right(h, x_parent)
                  w == h1.m[x_parent].right
              IN  IF black_or_null(h1.m, h1.m[w].left) /\ black_or_null(h1.m, h1.m[w].right)
                  THEN fix_remove(set_red_at(h1, w), x_parent, h1.m[x_parent].parent)
                  ELSE fix_remove_at_root(
                           far_nephew_on_right(near_nephew_on_right(h1, x_parent), x_parent),
                           x_parent)
         ELSE LET h1 == red_sibling_on_left(h, x_parent)
                  w == h1.m[x_parent].left
              IN  IF black_or_null(h1.m, h1.m[w].right) /\ black_or_null(h1.m, h1.m[w].left)
                  THEN fix_remove(set_red_at(h1, w), x_parent, h1.m[x_parent].parent)
                  ELSE fix_remove_at_root(
                           far_nephew_on_left(near_nephew_on_left(h1, x_parent), x_parent),
                           x_parent)
    ELSE set_black_at(h, x)

\* successor search of remove: leftmost node of the subtree at y
RECURSIVE leftmost(_, _)
leftmost(m, y) == IF m[y].left # NULL THEN leftmost(m, m[y].left) ELSE y

\* remove, the successor y is deeper than z->right: y's right child takes
\* y's place and y takes z's right subtree
detach_successor(h, z, y) ==
    set_parent_if(
        set_right(transplant(h, y, h.m[y].right), y, h.m[z].right),
        h.m[z].right, y)

\* mutant of replace_by_successor: the successor's word is copied into z
replace_by_successor_copies_key(h, z, y) ==
    [copy_color(
         set_parent_if(
             set_left(transplant(h, z, y), y, h.m[z].left),
             h.m[z].left, y),
         y, z) EXCEPT !.m[z].value = h.m[y].value]

\* remove: y takes z's place, z's left subtree and z's colour
replace_by_successor(h, z, y) ==
    copy_color(
        set_parent_if(
            set_left(transplant(h, z, y), y, h.m[z].left),
            h.m[z].left, y),
        y, z)

\* mutant of remove_two_children: the successor is unlinked in z's stead
remove_two_children_unlinks_successor(h, z) ==
    LET y == leftmost(h.m, h.m[z].right)
        t == transplant(h, y, h.m[y].right)
    IN  IF is_black(h.m[y].value)
        THEN fix_remove(t, h.m[y].right, h.m[y].parent)
        ELSE t

\* remove, z with two children
remove_two_children(h, z) ==
    LET y == leftmost(h.m, h.m[z].right)
        x == h.m[y].right
        direct == (h.m[y].parent = z)
        x_parent == IF direct THEN y ELSE h.m[y].parent
        h5 == replace_by_successor(
                  IF direct THEN set_parent_if(h, x, y) ELSE detach_successor(h, z, y),
                  z, y)
    IN  IF is_black(h.m[y].value) THEN fix_remove(h5, x, x_parent) ELSE h5

\* remove, z with at most one child x
remove_one_child(h, z, x) ==
    LET t == transplant(h, z, x)
    IN  IF is_black(h.m[z].value) THEN fix_remove(t, x, h.m[z].parent) ELSE t

remove(h, z) ==
    IF z = NULL \/ h.root = NULL THEN h
    ELSE IF h.m[z].left = NULL
         THEN remove_one_child(h, z, h.m[z].right)
         ELSE IF h.m[z].right = NULL
              THEN remove_one_child(h, z, h.m[z].left)
              ELSE remove_two_children(h, z)

\* the comparators callers pass to lower_bound: the lambda of
\* Block::best_fit, (a) <= (b), and the strict one the header documents
apply_cmp(cmp, a, b) == IF cmp = "less_equal" THEN a <= b ELSE a < b

\* a loop that stops at the first candidate instead of moving left
RECURSIVE lower_bound_first_candidate(_, _, _, _, _)
lower_bound_first_candidate(m, current, result, value, cmp) ==
    IF current = NULL THEN result
    ELSE IF apply_cmp(cmp, value, get_value(m[current].value))
         THEN current
         ELSE lower_bound_first_candidate(m, m[current].right, result, value, cmp)

\* the loop of lower_bound
RECURSIVE lower_bound_from(_, _, _, _, _)
lower_bound_from(m, current, result, value, cmp) ==
    IF current = NULL THEN result
    ELSE IF apply_cmp(cmp, value, get_value(m[current].value))
         THEN lower_bound_from(m, m[current].left, current, value, cmp)
         ELSE lower_bound_from(m, m[current].right, result, value, cmp)

lower_bound(m, root, value, cmp) == lower_bound_from(m, root, NULL, value, cmp)

\* ------------------------------------------------------------------------
\* State
\* ------------------------------------------------------------------------

VARIABLES
    mem,                  \* address of a region header -> MemoryNode
    blocks,               \* BlocksContainer::blocks, index -> Block
    current_block_index,  \* BlocksContainer::current_block_index
    live,                 \* pointers the client holds -> bytes it asked for
    last,                 \* the last call: its arguments and its outcome
    facades,              \* Halloc object -> whether it exists, and its blocks
    pools,                \* BlocksContainer held by a shared_ptr, by serial
    os                    \* the mappings mmap returned and their munmap calls

vars == <<mem, blocks, current_block_index, live, last, facades, pools, os>>

\* (void*)-1, mmap's failure value
MAP_FAILED == -1

\* Halloc objects the client can hold at once
FacadeIds == 1..MaxFacades

\* a Halloc object that does not exist
NoFacade == [alive |-> FALSE, blocks |-> NULL]

\* a process that has built no Halloc: the container or the tree is used
\* directly
NoHalloc ==
    /\ facades = [f \in FacadeIds |-> NoFacade]
    /\ pools = << >>
    /\ os = << >>

\* address of the first mapping the OS hands out
FirstMapAddr == MaxNumBlocks * MapStride

\* the template parameter BlockSize of the instantiation: ScenarioCapacity
\* when the pool was built with it (Block(BlockSize) stores it in the size
\* of blocks[0]), Capacity otherwise
BlockSize ==
    IF blocks[0].size = ScenarioCapacity THEN ScenarioCapacity ELSE Capacity

\* payload of the single region of a fresh block
FullPayload == BlockSize - MEMORY_NODE_SIZE

\* a request of twice the capacity of a block
LargeSize == 2 * ScenarioCapacity

\* requests of the pool of ScenarioCapacity: most of a block, nearly all of
\* it, more than is then left, and more than a block
ScenarioReqSizes == {800, 900, 100, LargeSize}

\* byte counts the client asks for: nothing, a small region, the largest
\* request that still splits a fresh block, the smallest that does not,
\* a whole fresh block, and one byte more than any block can hold
ReqSizes ==
    IF BlockSize = ScenarioCapacity
    THEN ScenarioReqSizes
    ELSE {0, SmallReq,
          FullPayload - MEMORY_NODE_SIZE - 1, FullPayload - MEMORY_NODE_SIZE,
          FullPayload, FullPayload + 1}

WordMax == 2 ^ WordBits - 1

\* ------------------------------------------------------------------------
\* Block.ipp
\* ------------------------------------------------------------------------

\* Block::Block(): an empty slot
EmptyBlock == [size |-> 0, head |-> NULL, rb_tree |-> NULL]

\* Block::Block(bytes) on a mapping at addr: one free node, which is the root
NewBlockNode(bytes) ==
    [value |-> mark_as_free(bytes - MEMORY_NODE_SIZE),
     next |-> NULL, prev |-> NULL,
     left |-> NULL, right |-> NULL, parent |-> NULL]

NewBlock(bytes, addr) == [size |-> bytes, head |-> addr, rb_tree |-> addr]

\* mutant of Block_best_fit: a strict comparator
Block_best_fit_strict(m, blk, bytes) == lower_bound(m, blk.rb_tree, bytes, "less")

\* Block::best_fit: lower_bound with the comparator (a) <= (b)
Block_best_fit(m, blk, bytes) == lower_bound(m, blk.rb_tree, bytes, "less_equal")

\* mutant of split_address: the header of the allocated node is not skipped
split_address_no_header(node, bytes) == node + bytes

\* address and size of the node a split creates
split_address(node, bytes) == node + MEMORY_NODE_SIZE + bytes

\* mutant of split_size: the new header is not paid for
split_size_keeps_header(node_size, bytes) == (node_size - bytes) % (WordMax + 1)

split_size(node_size, bytes) == node_size - bytes - MEMORY_NODE_SIZE

\* the split test of shrink_then_align
\* mutant of must_split: a remainder of zero bytes is split off too
must_split_without_one(node_size, bytes) ==
    node_size >= (bytes + MEMORY_NODE_SIZE) % (WordMax + 1)

must_split(node_size, bytes) ==
    node_size >= (bytes + MEMORY_NODE_SIZE + 1) % (WordMax + 1)

\* the node the split writes at new_node
split_node(h, node, new_node, new_node_size) ==
    [value |-> new_node_size,
     left |-> NULL, right |-> NULL, parent |-> NULL,
     next |-> h.m[node].next, prev |-> node]

\* if (n) n->prev = v
set_prev_if(h, n, v) == IF n # NULL THEN [h EXCEPT !.m[n].prev = v] ELSE h

\* the body of the split: the new node, the list links, node->value = bytes
split(h, node, bytes, node_size) ==
    LET new_node == split_address(node, bytes)
        fresh == split_node(h, node, new_node, mark_as_free(split_size(node_size, bytes)))
        linked == set_prev_if([h EXCEPT !.m = (new_node :> fresh) @@ h.m],
                              h.m[node].next, new_node)
    IN  insert([linked EXCEPT !.m[node].next = new_node, !.m[node].value = bytes],
               new_node)

\* mark_as_used(node->value)
mark_node_used(h, node) == [h EXCEPT !.m[node].value = mark_as_used(@)]

shrink_then_align(h, node, bytes) ==
    LET node_size == get_actual_value(h.m[node].value)
    IN  mark_node_used(
            IF must_split(node_size, bytes) THEN split(h, node, bytes, node_size) ELSE h,
            node)

\* mutant of Block_allocate: the node is not taken out of the tree
Block_allocate_no_remove(h, bytes, node) == shrink_then_align(h, node, bytes)

\* Block::allocate: the tree and memory after it; the pointer is node + header
Block_allocate(h, bytes, node) == shrink_then_align(remove(h, node), node, bytes)

\* memory without the header at a: the bytes now belong to a payload
drop_node(m, a) == [n \in DOMAIN m \ {a} |-> m[n]]

\* mutant of absorb: the header of the absorbed region is not added
absorb_without_header(h, survivor, absorbed) ==
    [set_prev_if([h EXCEPT !.m[survivor].value =
                               mark_as_free(get_actual_value(h.m[survivor].value)
                                            + get_actual_value(h.m[absorbed].value)),
                           !.m[survivor].next = h.m[absorbed].next],
                 h.m[absorbed].next, survivor)
     EXCEPT !.m = drop_node(@, absorbed)]

\* survivor takes the bytes and the successor of absorbed, which leaves memory
absorb(h, survivor, absorbed) ==
    LET merged == (get_actual_value(h.m[survivor].value)
                   + get_actual_value(h.m[absorbed].value)
                   + MEMORY_NODE_SIZE) % (WordMax + 1)
        after == h.m[absorbed].next
        relinked == set_prev_if([h EXCEPT !.m[survivor].value = mark_as_free(merged),
                                          !.m[survivor].next = after],
                                after, survivor)
    IN  [relinked EXCEPT !.m = drop_node(@, absorbed)]

\* mutant of merge_next: the bytes of the absorbed header are not added
merge_next_drops_header(h, node) ==
    LET merged == absorb(remove(h, h.m[node].next), node, h.m[node].next)
    IN  [merged EXCEPT !.m[node].value = @ - MEMORY_NODE_SIZE]

\* forward merge of coalesce_nodes
merge_next(h, node) == absorb(remove(h, h.m[node].next), node, h.m[node].next)

\* backward merge of coalesce_nodes; the survivor is node->prev
merge_prev(h, node) == absorb(remove(h, h.m[node].prev), h.m[node].prev, node)

\* mutant of next_is_free: the successor is never seen as free
next_is_free_never(h, node) == FALSE

\* node->next && is_free(node->next->value)
next_is_free(h, node) == h.m[node].next # NULL /\ is_free(h.m[h.m[node].next].value)

\* mutant of prev_is_free: the used bit of the predecessor is not read
prev_is_free_unread(h, node) == h.m[node].prev # NULL

\* node->prev && is_free(node->prev->value)
prev_is_free(h, node) == h.m[node].prev # NULL /\ is_free(h.m[h.m[node].prev].value)

\* mutant of coalesce_backward: the surviving node is not inserted
coalesce_backward_no_insert(h, node) ==
    IF prev_is_free(h, node) THEN merge_prev(h, node) ELSE h

\* the backward merge and the final insert of coalesce_nodes
coalesce_backward(h, node) ==
    IF prev_is_free(h, node)
    THEN insert(merge_prev(h, node), h.m[node].prev)
    ELSE insert(h, node)

\* mutant of coalesce_nodes: the forward merge is missing
coalesce_nodes_backward_only(h, node) == coalesce_backward(h, node)

coalesce_nodes(h, node) ==
    coalesce_backward(IF next_is_free(h, node) THEN merge_next(h, node) ELSE h, node)

\* mark_as_free(node->value)
\* mutant of mark_node_free: the released region keeps its used flag
mark_node_free_keeps_flag(h, node) == h

mark_node_free(h, node) == [h EXCEPT !.m[node].value = mark_as_free(@)]

\* mutant of Block_deallocate: the size is taken from the caller
Block_deallocate_trusts_bytes(h, ptr, bytes) ==
    coalesce_nodes([h EXCEPT !.m[ptr - MEMORY_NODE_SIZE].value = mark_as_free(bytes)],
                   ptr - MEMORY_NODE_SIZE)

\* bytes is [[maybe_unused]]
Block_deallocate(h, ptr, bytes) ==
    coalesce_nodes(mark_node_free(h, ptr - MEMORY_NODE_SIZE), ptr - MEMORY_NODE_SIZE)

\* ------------------------------------------------------------------------
\* BlocksContainer.ipp.  A pool is a record [mem, blocks, cbi].
\* ------------------------------------------------------------------------

\* mutant of better_fit: a later block of equal size replaces the candidate
better_fit_or_equal(node_size, best_size) == node_size <= best_size

\* "track smallest fit" of BlocksContainer::best_fit
better_fit(node_size, best_size) == node_size < best_size

\* mutant of can_provision: the last slot is never used
can_provision_off_by_one(cbi) == cbi + 2 < MaxNumBlocks

\* room for one more block
can_provision(cbi) == cbi + 1 < MaxNumBlocks

\* the loop of BlocksContainer::best_fit from block i on
RECURSIVE best_fit_from(_, _, _, _)
best_fit_from(P, bytes, i, best) ==
    IF i > P.cbi THEN best
    ELSE LET node == Block_best_fit(P.mem, P.blocks[i], bytes)
             node_size == get_actual_value(P.mem[node].value)
         IN  IF node # NULL /\ better_fit(node_size, best.size)
             THEN best_fit_from(P, bytes, i + 1,
                                [index |-> i, size |-> node_size, node |-> node])
             ELSE best_fit_from(P, bytes, i + 1, best)

\* mutant of BlocksContainer_best_fit: the loop stops before the last block
BlocksContainer_best_fit_skips_last(P, bytes) ==
    best_fit_from([P EXCEPT !.cbi = @ - 1], bytes, 0,
                  [index |-> NO_INDEX, size |-> WordMax, node |-> NULL])

BlocksContainer_best_fit(P, bytes) ==
    best_fit_from(P, bytes, 0, [index |-> NO_INDEX, size |-> WordMax, node |-> NULL])

\* the memory and the tree root a member function of blocks[index] works on
tree_of(P, index) == [m |-> P.mem, root |-> P.blocks[index].rb_tree]

\* mutant of store_tree: the root is written to blocks[0]
store_tree_in_first(P, index, h) ==
    [mem |-> h.m, blocks |-> [P.blocks EXCEPT ![0].rb_tree = h.root], cbi |-> P.cbi]

\* the pool once a member function of blocks[index] has left the tree h
store_tree(P, index, h) ==
    [mem |-> h.m, blocks |-> [P.blocks EXCEPT ![index].rb_tree = h.root], cbi |-> P.cbi]

\* the outcome of a call: the pool it leaves, how it ended, what it returned
\* and the block that served it
returns(P, status, ptr, index) ==
    [mem |-> P.mem, blocks |-> P.blocks, cbi |-> P.cbi,
     status |-> status, ptr |-> ptr, index |-> index]

\* blocks[index].allocate(bytes, node) and the pointer it returns
allocate_from(P, index, bytes, node) ==
    returns(store_tree(P, index, Block_allocate(tree_of(P, index), bytes, node)),
            "ok", node + MEMORY_NODE_SIZE, index)

\* an outcome that returns no pointer
no_pointer(P, status) == returns(P, status, NULL, NO_INDEX)

\* current_block_index++; blocks[current_block_index] = Block(BlockSize);
\* addr is what mmap returns, and on MAP_FAILED the constructor throws after
\* the increment
provision(P, addr) ==
    IF addr = MAP_FAILED
    THEN [P EXCEPT !.cbi = P.cbi + 1]
    ELSE [mem |-> (addr :> NewBlockNode(BlockSize)) @@ P.mem,
          blocks |-> [P.blocks EXCEPT ![P.cbi + 1] = NewBlock(BlockSize, addr)],
          cbi |-> P.cbi + 1]

\* the query and the allocation in the block that was just provisioned
serve_from_new(P1, bytes, node) ==
    IF node = NULL
    THEN no_pointer(P1, "null")
    ELSE allocate_from(P1, P1.cbi, bytes, node)

\* the branch of allocate that provisions blocks[current_block_index + 1]
provision_then_allocate(P, bytes, addr) ==
    IF addr = MAP_FAILED
    THEN no_pointer(provision(P, addr), "bad_alloc")
    ELSE serve_from_new(provision(P, addr), bytes,
                        Block_best_fit(provision(P, addr).mem,
                                       provision(P, addr).blocks[P.cbi + 1], bytes))

\* mutant of invalid_bytes: a test an unsigned size never meets
invalid_bytes_negative(bytes) == bytes < 0

\* the argument check of BlocksContainer::allocate
invalid_bytes(bytes) == bytes < 1

BlocksContainer_allocate(P, bytes, addr) ==
    IF invalid_bytes(bytes)
    THEN no_pointer(P, "invalid_argument")
    ELSE LET fit == BlocksContainer_best_fit(P, bytes)
         IN  IF fit.index = NO_INDEX
             THEN IF can_provision(P.cbi)
                  THEN provision_then_allocate(P, bytes, addr)
                  ELSE no_pointer(P, "null")
             ELSE IF fit.node = NULL
                  THEN no_pointer(P, "null")
                  ELSE allocate_from(P, fit.index, bytes, fit.node)

\* mutant of owner_from: the range test has no lower end
RECURSIVE owner_from_no_lower_bound(_, _, _)
owner_from_no_lower_bound(P, ptr, i) ==
    IF i > P.cbi THEN NO_INDEX
    ELSE IF ptr < P.blocks[i].head + BlockSize
         THEN i
         ELSE owner_from_no_lower_bound(P, ptr, i + 1)

\* the scan of BlocksContainer::deallocate: first block whose range holds ptr
RECURSIVE owner_from(_, _, _)
owner_from(P, ptr, i) ==
    IF i > P.cbi THEN NO_INDEX
    ELSE LET block_start == P.blocks[i].head
             block_end == block_start + BlockSize
         IN  IF block_start <= ptr /\ ptr < block_end
             THEN i
             ELSE owner_from(P, ptr, i + 1)

\* address a lies in the mapping of some block
in_mapping(P, a) ==
    \E i \in 0..(MaxNumBlocks - 1) :
        /\ P.blocks[i].head # NULL
        /\ P.blocks[i].head <= a
        /\ a < P.blocks[i].head + P.blocks[i].size

\* mutant of deallocate_in: the call goes to blocks[0]
deallocate_in_first(P, ptr, bytes, i) ==
    IF in_mapping(P, ptr - MEMORY_NODE_SIZE)
    THEN returns(store_tree(P, 0, Block_deallocate(tree_of(P, 0), ptr, bytes)), "ok", ptr, 0)
    ELSE returns(P, "segfault", ptr, 0)

\* blocks[i].deallocate(ptr): the write of node->value at ptr - MEMORY_NODE_SIZE
\* faults when that address is in no mapping, which the scan allows when
\* blocks[i].head is nullptr and ptr is below BlockSize
deallocate_in(P, ptr, bytes, i) ==
    IF in_mapping(P, ptr - MEMORY_NODE_SIZE)
    THEN returns(store_tree(P, i, Block_deallocate(tree_of(P, i), ptr, bytes)), "ok", ptr, i)
    ELSE returns(P, "segfault", ptr, i)

BlocksContainer_deallocate(P, ptr, bytes) ==
    IF owner_from(P, ptr, 0) = NO_INDEX
    THEN no_pointer(P, "invalid_argument")
    ELSE deallocate_in(P, ptr, bytes, owner_from(P, ptr, 0))

\* ------------------------------------------------------------------------
\* Specification
\* ------------------------------------------------------------------------

Pool == [mem |-> mem, blocks |-> blocks, cbi |-> current_block_index]

\* addresses of the mappings the pool holds
Mapped == {blocks[i].head : i \in 0..(MaxNumBlocks - 1)} \ {NULL}

\* what mmap may return: a mapping just below or just above those the
\* process already has, or MAP_FAILED
MmapResults ==
    {MAP_FAILED}
    \cup {a - MapStride : a \in {b \in Mapped : \A c \in Mapped : b <= c}}
    \cup {a + MapStride : a \in {b \in Mapped : \A c \in Mapped : b >= c}}

\* A used region is in no tree: insert writes its left, right, parent and
\* colour bit before anything reads them again, so the state does not
\* keep what remove left in them.
forget_tree_links(m, node) ==
    [m EXCEPT ![node] = [@ EXCEPT !.left = NULL, !.right = NULL, !.parent = NULL,
                                  !.value = set_color_black(@)]]

\* the pool BlocksContainer<capacity, MaxNumBlocks>() builds on a mapping at
\* addr: blocks[0] is built, the rest are empty
NewPool(capacity, addr) ==
    [mem |-> (addr :> NewBlockNode(capacity)),
     blocks |-> [i \in 0..(MaxNumBlocks - 1) |->
                    IF i = 0 THEN NewBlock(capacity, addr) ELSE EmptyBlock],
     cbi |-> 0]

\* the state once the constructor has left the pool P
Constructed(P) ==
    /\ mem = P.mem
    /\ blocks = P.blocks
    /\ current_block_index = P.cbi
    /\ live = << >>
    /\ last = [op |-> "construct", bytes |-> 0, ptr |-> NULL,
               status |-> "ok", index |-> 0]
    /\ NoHalloc

\* BlocksContainer<Capacity, MaxNumBlocks>()
Init == Constructed(NewPool(Capacity, FirstMapAddr))

\* BlocksContainer<ScenarioCapacity, MaxNumBlocks>()
ScenarioInit == Constructed(NewPool(ScenarioCapacity, FirstMapAddr))

\* allocations the client holds at a time
LiveLimit == IF BlockSize = ScenarioCapacity THEN ScenarioMaxLive ELSE MaxLive

\* the process has not been ended by a fault
Running == last.status # "segfault"

\* allocate(bytes) reaches the Block constructor, which calls mmap
calls_mmap(P, bytes) ==
    /\ ~invalid_bytes(bytes)
    /\ BlocksContainer_best_fit(P, bytes).index = NO_INDEX
    /\ can_provision(P.cbi)

\* the state once allocate(bytes) has ended with outcome r
AllocateReturns(bytes, r) ==
    /\ mem' = IF r.ptr # NULL
              THEN forget_tree_links(r.mem, r.ptr - MEMORY_NODE_SIZE)
              ELSE r.mem
    /\ blocks' = r.blocks
    /\ current_block_index' = r.cbi
    /\ live' = IF r.ptr # NULL
               THEN (r.ptr :> [bytes |-> bytes, index |-> r.index]) @@ live
               ELSE live
    /\ last' = [op |-> "allocate", bytes |-> bytes, ptr |-> r.ptr,
                status |-> r.status, index |-> r.index]
    /\ UNCHANGED <<facades, pools, os>>

\* container.allocate(bytes); addr is the result of mmap when it is called
Allocate ==
    \E bytes \in ReqSizes :
    \E addr \in (IF calls_mmap(Pool, bytes) THEN MmapResults ELSE {MAP_FAILED}) :
        /\ Running
        /\ Cardinality(DOMAIN live) < LiveLimit
        /\ AllocateReturns(bytes, BlocksContainer_allocate(Pool, bytes, addr))

\* the state once deallocate(ptr, live[ptr].bytes) has ended with outcome r
DeallocateReturns(ptr, r) ==
    /\ mem' = r.mem
    /\ blocks' = r.blocks
    /\ current_block_index' = r.cbi
    /\ live' = [q \in DOMAIN live \ {ptr} |-> live[q]]
    /\ last' = [op |-> "deallocate", bytes |-> live[ptr].bytes, ptr |-> ptr,
                status |-> r.status, index |-> r.index]
    /\ UNCHANGED <<facades, pools, os>>

\* what the client passes as bytes when it releases an allocation of n
\* bytes: n, nothing, too much, and the largest size_t
Hints(n) == {n, 0, n + 1, WordMax}

\* container.deallocate(ptr, bytes) of a pointer the client holds
Deallocate ==
    \E ptr \in DOMAIN live :
    \E bytes \in Hints(live[ptr].bytes) :
        /\ Running
        /\ DeallocateReturns(ptr, BlocksContainer_deallocate(Pool, ptr, bytes))

\* pointers the pool never returned: nullptr, the byte below the lowest
\* mapping and the first byte past the end of the highest block
ForeignPtrs ==
    {NULL}
    \cup {a - 1 : a \in {b \in Mapped : \A c \in Mapped : b <= c}}
    \cup {a + BlockSize : a \in {b \in Mapped : \A c \in Mapped : b >= c}}

\* the state once deallocate(ptr, 0) of a foreign pointer has ended with
\* outcome r
ForeignReturns(ptr, r) ==
    /\ mem' = r.mem
    /\ blocks' = r.blocks
    /\ current_block_index' = r.cbi
    /\ live' = live
    /\ last' = [op |-> "deallocate", bytes |-> 0, ptr |-> ptr,
                status |-> r.status, index |-> r.index]
    /\ UNCHANGED <<facades, pools, os>>

\* container.deallocate(ptr, 0) of a pointer that is not the client's
DeallocateForeign ==
    \E ptr \in ForeignPtrs :
        /\ Running
        /\ ForeignReturns(ptr, BlocksContainer_deallocate(Pool, ptr, 0))

Next == Allocate \/ Deallocate \/ DeallocateForeign

Spec == Init /\ [][Next]_vars

ScenarioSpec == ScenarioInit /\ [][Next]_vars

\* ------------------------------------------------------------------------
\* The tree driven directly, as a client of rb-tree.hpp does: the nodes are
\* the caller's, the root is the one of blocks[0].rb_tree.
\* ------------------------------------------------------------------------

TreeAddrs == 1..MaxTreeNodes

RECURSIVE tree_nodes(_, _, _)
tree_nodes(m, n, fuel) ==
    IF n = NULL \/ fuel = 0 THEN {}
    ELSE {n} \cup tree_nodes(m, m[n].left, fuel - 1)
             \cup tree_nodes(m, m[n].right, fuel - 1)

\* the nodes now linked under the root
InTree == tree_nodes(mem, blocks[0].rb_tree, MaxTreeNodes)

\* lengths of the runs of equal keys: all keys distinct, pairs of
\* duplicates, all keys equal
KeyRuns == {1, 2, MaxTreeNodes}

\* nodes the caller made, keys in address order
TreeInit ==
    \E run \in KeyRuns :
    \E keys \in {[a \in TreeAddrs |-> 1 + (a - 1) \div run]} :
        /\ mem = [a \in TreeAddrs |->
                    [value |-> keys[a], next |-> NULL, prev |-> NULL,
                     left |-> NULL, right |-> NULL, parent |-> NULL]]
        /\ blocks = [i \in 0..(MaxNumBlocks - 1) |-> EmptyBlock]
        /\ current_block_index = 0
        /\ live = << >>
        /\ last = [op |-> "construct", bytes |-> 0, ptr |-> NULL,
                   status |-> "ok", index |-> 0]
        /\ NoHalloc

\* the state once insert or remove has left the tree h
TreeReturns(op, node, h) ==
    /\ mem' = h.m
    /\ blocks' = [blocks EXCEPT ![0].rb_tree = h.root]
    /\ last' = [op |-> op, bytes |-> 0, ptr |-> node, status |-> "ok", index |-> 0]
    /\ UNCHANGED <<current_block_index, live, facades, pools, os>>

\* a tree h with the stale links of the removed node forgotten
forget_removed(h, node) == [h EXCEPT !.m = forget_tree_links(@, node)]

\* hh::rb_tree::insert(root, node) of a node that is not in the tree
TreeInsert ==
    \E node \in DOMAIN mem \ InTree :
        TreeReturns("insert", node, insert(tree_of(Pool, 0), node))

\* hh::rb_tree::remove(root, node) of a node of the tree
TreeRemove ==
    \E node \in InTree :
        TreeReturns("remove", node, forget_removed(remove(tree_of(Pool, 0), node), node))

TreeNext == TreeInsert \/ TreeRemove

TreeSpec == TreeInit /\ [][TreeNext]_vars

\* ------------------------------------------------------------------------
\* Halloc<T, Capacity, MaxNumBlocks>: objects that hold one BlocksContainer
\* through a std::shared_ptr. pools[id] is the container with serial id,
\* os[k] the k-th mapping mmap returned, with the munmap calls made on it.
\* ------------------------------------------------------------------------

\* the slot of a container whose last shared_ptr is gone
Destroyed == [mem |-> << >>, blocks |-> << >>, cbi |-> NO_INDEX]

\* the Halloc objects, the containers and the mappings of the process
World == [facades |-> facades, pools |-> pools, os |-> os]

\* the objects whose blocks points to the container id
Sharing(F, id) == {f \in FacadeIds : F[f].alive /\ F[f].blocks = id}

\* mmap hands out an address it has not handed out before
NextMapAddr(log) == FirstMapAddr + Len(log) * MapStride

\* munmap of each address of heads: one more call on its mapping
munmap_all(log, heads) ==
    [k \in DOMAIN log |->
        IF log[k].addr \in heads THEN [log[k] EXCEPT !.unmaps = @ + 1] ELSE log[k]]

\* Block::~Block: if (head) munmap(head, size)
Block_destroy(blk) == IF blk.head # NULL THEN {blk.head} ELSE {}

\* mutant of moved_from: the source of the move keeps its head
moved_from_keeps_head(blk) == blk

\* the Block a move leaves behind: other.head = nullptr; other.size = 0
moved_from(blk) == [blk EXCEPT !.head = NULL, !.size = 0]

\* blocks[i] = std::move(Block(BlockSize)) on the mapping at addr of the
\* container id: the mapping exists, the temporary is moved from and then
\* destroyed
mmap_then_move(log, addr, id) ==
    munmap_all(Append(log, [addr |-> addr, unmaps |-> 0, pool |-> id]),
               Block_destroy(moved_from(NewBlock(BlockSize, addr))))

\* ~BlocksContainer: the Blocks of the array are destroyed
BlocksContainer_destroy(P) ==
    UNION {Block_destroy(P.blocks[i]) : i \in 0..(MaxNumBlocks - 1)}

\* a shared_ptr to the container id has gone: when no object of F shares
\* it any more the container is destroyed
drop_unshared(F, Ps, log, id) ==
    IF Sharing(F, id) # {}
    THEN [facades |-> F, pools |-> Ps, os |-> log]
    ELSE [facades |-> F,
          pools |-> [Ps EXCEPT ![id] = Destroyed],
          os |-> munmap_all(log, BlocksContainer_destroy(Ps[id]))]

\* Halloc(): blocks(std::make_shared<BlocksContainer>()), built as object f
Halloc_construct(W, f, addr) ==
    [facades |-> [W.facades EXCEPT ![f] = [alive |-> TRUE, blocks |-> Len(W.pools) + 1]],
     pools |-> Append(W.pools, NewPool(Capacity, addr)),
     os |-> mmap_then_move(W.os, addr, Len(W.pools) + 1)]

\* mutant of copied_blocks: the copy gets no container
copied_blocks_null(F, other) == NULL

\* blocks(other.blocks) and blocks = other.blocks
copied_blocks(F, other) == F[other].blocks

\* Halloc(const Halloc& other) and the rebind constructor, built as object f
Halloc_copy(W, f, other) ==
    [W EXCEPT !.facades[f] = [alive |-> TRUE, blocks |-> copied_blocks(W.facades, other)]]

\* f = other
Halloc_assign(W, f, other) ==
    drop_unshared([W.facades EXCEPT ![f].blocks = copied_blocks(W.facades, other)],
                  W.pools, W.os, W.facades[f].blocks)

\* ~Halloc of object f
Halloc_destroy(W, f) ==
    drop_unshared([W.facades EXCEPT ![f] = NoFacade], W.pools, W.os, W.facades[f].blocks)

\* operator==
Halloc_eq(F, f, g) == F[f].blocks = F[g].blocks

\* count * sizeof(T) in std::size_t
byte_count(count) == (count * SizeofT) % (WordMax + 1)

\* the process once a member function of the container id ended with r,
\* with the mappings log
halloc_returns(W, id, log, r) ==
    [facades |-> W.facades,
     pools |-> [W.pools EXCEPT ![id] =
                   [mem |-> IF r.ptr # NULL /\ r.status = "ok" /\ r.index # NO_INDEX
                            THEN forget_tree_links(r.mem, r.ptr - MEMORY_NODE_SIZE)
                            ELSE r.mem,
                    blocks |-> r.blocks, cbi |-> r.cbi]],
     os |-> log,
     status |-> r.status, ptr |-> r.ptr, index |-> r.index]

\* f.allocate(count): blocks->allocate(count * sizeof(T))
Halloc_allocate(W, f, count, addr) ==
    halloc_returns(W, W.facades[f].blocks,
        IF calls_mmap(W.pools[W.facades[f].blocks], byte_count(count)) /\ addr # MAP_FAILED
        THEN mmap_then_move(W.os, addr, W.facades[f].blocks)
        ELSE W.os,
        BlocksContainer_allocate(W.pools[W.facades[f].blocks], byte_count(count), addr))

\* f.deallocate(ptr, count): blocks->deallocate(ptr, count * sizeof(T))
Halloc_deallocate(W, f, ptr, count) ==
    halloc_returns(W, W.facades[f].blocks, W.os,
        BlocksContainer_deallocate(W.pools[W.facades[f].blocks], ptr, byte_count(count)))

\* element counts the client asks for: a few elements, a whole fresh
\* block, one element more than a block holds, and a count whose byte
\* count exceeds the largest size_t
Counts ==
    {SmallReq \div SizeofT,
     (Capacity - MEMORY_NODE_SIZE) \div SizeofT,
     (Capacity - MEMORY_NODE_SIZE) \div SizeofT + 1,
     (WordMax + 1) \div SizeofT + SmallReq \div SizeofT}

\* no Halloc has been built yet
FacadeInit ==
    /\ mem = << >>
    /\ blocks = [i \in 0..(MaxNumBlocks - 1) |-> EmptyBlock]
    /\ current_block_index = 0
    /\ live = << >>
    /\ last = [op |-> "start", facade |-> 0, by |-> 0, ptr |-> NULL, status |-> "ok"]
    /\ NoHalloc

Alive == {f \in FacadeIds : facades[f].alive}

\* the place of the next Halloc object the client builds
FreeFacade == CHOOSE f \in FacadeIds \ Alive : \A g \in FacadeIds \ Alive : f <= g

\* the state once a member function of object f has left the process W1;
\* by is the object that allocated the pointer a deallocate releases
FacadeReturns(op, f, by, W1, ptr, status) ==
    /\ facades' = W1.facades
    /\ pools' = W1.pools
    /\ os' = W1.os
    /\ last' = [op |-> op, facade |-> f, by |-> by, ptr |-> ptr, status |-> status]
    /\ UNCHANGED <<mem, blocks, current_block_index>>

\* the client's pointers into containers that still exist
StillMapped(W1) == {p \in DOMAIN live : W1.pools[live[p].pool] # Destroyed}

\* Halloc<T, Capacity, MaxNumBlocks> a;
FacadeConstruct ==
    /\ Alive # FacadeIds
    /\ Len(pools) < MaxPools
    /\ FacadeReturns("construct", FreeFacade, 0, Halloc_construct(World, FreeFacade, NextMapAddr(os)),
                     NULL, "ok")
    /\ UNCHANGED live

\* Halloc b(a);
FacadeCopy ==
    \E other \in Alive :
        /\ Alive # FacadeIds
        /\ FacadeReturns("copy", FreeFacade, 0, Halloc_copy(World, FreeFacade, other), NULL, "ok")
        /\ UNCHANGED live

\* a = b;
FacadeAssign ==
    \E f \in Alive : \E other \in Alive :
        /\ FacadeReturns("assign", f, 0, Halloc_assign(World, f, other), NULL, "ok")
        /\ live' = [p \in StillMapped(Halloc_assign(World, f, other)) |-> live[p]]

\* the object f goes out of scope
FacadeDestroy ==
    \E f \in Alive :
        /\ FacadeReturns("destroy", f, 0, Halloc_destroy(World, f), NULL, "ok")
        /\ live' = [p \in StillMapped(Halloc_destroy(World, f)) |-> live[p]]

\* the state once f.allocate(count) has ended with outcome r
FacadeAllocateReturns(f, count, r) ==
    /\ FacadeReturns("allocate", f, 0, r, r.ptr, r.status)
    /\ live' = IF r.ptr # NULL
               THEN (r.ptr :> [count |-> count, index |-> r.index,
                               pool |-> facades[f].blocks, facade |-> f]) @@ live
               ELSE live

\* what mmap returns in a call of allocate(count) on the object f: a new
\* mapping or MAP_FAILED when it is called, nothing to choose otherwise
FacadeMmapResults(f, count) ==
    IF calls_mmap(pools[facades[f].blocks], byte_count(count))
    THEN {NextMapAddr(os), MAP_FAILED}
    ELSE {MAP_FAILED}

\* a.allocate(count); addr is the result of mmap when it is called
FacadeAllocate ==
    \E f \in Alive : \E count \in Counts :
    \E addr \in FacadeMmapResults(f, count) :
        /\ Cardinality(DOMAIN live) < FacadeMaxLive
        /\ FacadeAllocateReturns(f, count, Halloc_allocate(World, f, count, addr))

\* a.deallocate(ptr, count) of a pointer of a's container, through any
\* object that shares it
FacadeDeallocate ==
    \E f \in Alive : \E ptr \in {p \in DOMAIN live : live[p].pool = facades[f].blocks} :
        /\ FacadeReturns("deallocate", f, live[ptr].facade,
                         Halloc_deallocate(World, f, ptr, live[ptr].count),
                         ptr, Halloc_deallocate(World, f, ptr, live[ptr].count).status)
        /\ live' = [q \in DOMAIN live \ {ptr} |-> live[q]]

FacadeNext ==
    \/ FacadeConstruct
    \/ FacadeCopy
    \/ FacadeAssign
    \/ FacadeDestroy
    \/ FacadeAllocate
    \/ FacadeDeallocate

FacadeSpec == FacadeInit /\ [][FacadeNext]_vars

\* ------------------------------------------------------------------------
\* Observations of the state used by the properties
\* ------------------------------------------------------------------------

Provisioned == 0..current_block_index

RECURSIVE list_from(_, _, _)
list_from(m, n, fuel) ==
    IF n = NULL \/ fuel = 0 THEN << >>
    ELSE <<n>> \o list_from(m, m[n].next, fuel - 1)

\* the spatial list of block i, walked from its head
SpatialList(i) == list_from(mem, blocks[i].head, Cardinality(DOMAIN mem))

Regions(i) == {SpatialList(i)[k] : k \in 1..Len(SpatialList(i))}

SizeOf(n) == get_actual_value(mem[n].value)

FreeRegions(i) == {n \in Regions(i) : is_free(mem[n].value)}

\* the nodes reachable from the root of block i's tree
TreeSet(i) == tree_nodes(mem, blocks[i].rb_tree, Cardinality(DOMAIN mem))

\* sizes of the free regions of all provisioned blocks that can hold bytes
FittingSizes(bytes) ==
    {SizeOf(n) : n \in {f \in UNION {FreeRegions(i) : i \in Provisioned} :
                          SizeOf(f) >= bytes}}

\* the spatial list of block i of pool P
ListOf(P, i) == list_from(P.mem, P.blocks[i].head, Cardinality(DOMAIN P.mem))

\* address, payload size and used flag of the region whose header is at n
RegionView(m, n) ==
    [addr |-> n, size |-> get_actual_value(m[n].value), used |-> ~is_free(m[n].value)]

\* the regions of block i in spatial order
RegionsView(P, L) == [k \in 1..Len(L) |-> RegionView(P.mem, L[k])]

\* block i as a client sees it: base, capacity, spatial list and the set of
\* regions in its tree
ArenaView(P, i) ==
    [base |-> P.blocks[i].head,
     capacity |-> P.blocks[i].size,
     list |-> RegionsView(P, ListOf(P, i)),
     free |-> tree_nodes(P.mem, P.blocks[i].rb_tree, Cardinality(DOMAIN P.mem))]

\* the pool as a client sees it: the watermark and every block up to it
PoolView(P) == [cbi |-> P.cbi, arenas |-> [i \in 0..P.cbi |-> ArenaView(P, i)]]

\* ------------------------------------------------------------------------
\* Properties
\* ------------------------------------------------------------------------

\* C1: in every provisioned block the nodes reachable from the tree root are
\* exactly the regions of the spatial list whose used bit is clear; no region
\* handed out and not yet released is in any tree.
C1_TreeIsExactlyTheFreeRegions ==
    /\ \A i \in Provisioned : TreeSet(i) = FreeRegions(i)
    /\ \A p \in DOMAIN live : \A i \in Provisioned :
           (p - MEMORY_NODE_SIZE) \notin TreeSet(i)

\* a release has left a block with two free regions around live ones
C1_Witness ==
    /\ last.op = "deallocate"
    /\ last.status = "ok"
    /\ DOMAIN live # {}
    /\ \E i \in Provisioned : Cardinality(TreeSet(i)) >= 2

\* C2: no two spatially adjacent regions are both free.
C2_NoAdjacentFree ==
    \A i \in Provisioned : \A n \in FreeRegions(i) :
        /\ mem[n].next # NULL => ~is_free(mem[mem[n].next].value)
        /\ mem[n].prev # NULL => ~is_free(mem[mem[n].prev].value)

\* a release merged the region with both neighbours: the block is one region
\* again while another allocation is still live elsewhere
C2_Witness ==
    /\ last.op = "deallocate"
    /\ last.status = "ok"
    /\ Len(SpatialList(last.index)) = 1
    /\ DOMAIN live # {}

\* in-order sequence of the sizes under n
RECURSIVE inorder_sizes(_, _, _)
inorder_sizes(m, n, fuel) ==
    IF n = NULL \/ fuel = 0 THEN << >>
    ELSE inorder_sizes(m, m[n].left, fuel - 1)
         \o <<get_actual_value(m[n].value)>>
         \o inorder_sizes(m, m[n].right, fuel - 1)

\* number of black nodes on every path from n down to NULL, -1 if paths differ
RECURSIVE black_height(_, _, _)
black_height(m, n, fuel) ==
    IF n = NULL \/ fuel = 0 THEN 0
    ELSE LET l == black_height(m, m[n].left, fuel - 1)
             r == black_height(m, m[n].right, fuel - 1)
         IN  IF l = -1 \/ r = -1 \/ l # r THEN -1
             ELSE l + (IF is_black(m[n].value) THEN 1 ELSE 0)

RedBlackValid(m, root) ==
    LET fuel  == Cardinality(DOMAIN m)
        nodes == tree_nodes(m, root, fuel)
        keys  == inorder_sizes(m, root, fuel)
    IN  /\ \A k \in 1..(Len(keys) - 1) : keys[k] <= keys[k + 1]
        /\ root # NULL => is_black(m[root].value)
        /\ \A n \in nodes : is_red(m[n].value) =>
               /\ m[n].left # NULL => is_black(m[m[n].left].value)
               /\ m[n].right # NULL => is_black(m[m[n].right].value)
        /\ black_height(m, root, fuel) # -1

\* C3: the tree of every provisioned block is a red-black tree keyed by size:
\* in-order sorted (duplicates allowed), black root, no red node with a red
\* child, the same number of black nodes on every path from the root to NULL.
C3_RedBlackTree ==
    \A i \in Provisioned : RedBlackValid(mem, blocks[i].rb_tree)

\* a remove left a tree of at least four nodes with two equal sizes in it
C3_Witness ==
    /\ last.op = "remove"
    /\ Cardinality(TreeSet(0)) >= 4
    /\ \E a \in TreeSet(0) : \E b \in TreeSet(0) \ {a} : SizeOf(a) = SizeOf(b)

\* C4: the spatial list of every provisioned block starts at the base with
\* prev = NULL, ends with next = NULL exactly at base + capacity, and each
\* successor s of r has s.prev = r and address(s) = address(r) + header + size(r).
C4_SpatialListWellFormed ==
    \A i \in Provisioned :
        LET L == SpatialList(i) IN
        /\ Len(L) >= 1
        /\ L[1] = blocks[i].head
        /\ mem[L[1]].prev = NULL
        /\ mem[L[Len(L)]].next = NULL
        /\ L[Len(L)] + MEMORY_NODE_SIZE + SizeOf(L[Len(L)]) = blocks[i].head + BlockSize
        /\ \A k \in 1..(Len(L) - 1) :
               /\ mem[L[k + 1]].prev = L[k]
               /\ L[k + 1] = L[k] + MEMORY_NODE_SIZE + SizeOf(L[k])

\* C4 for the blocks that hold a mapping
C4_MappedBlocksWellFormed ==
    \A i \in Provisioned :
        blocks[i].head # NULL =>
            LET L == SpatialList(i) IN
            /\ Len(L) >= 1
            /\ L[1] = blocks[i].head
            /\ mem[L[1]].prev = NULL
            /\ mem[L[Len(L)]].next = NULL
            /\ L[Len(L)] + MEMORY_NODE_SIZE + SizeOf(L[Len(L)]) = blocks[i].head + BlockSize
            /\ \A k \in 1..(Len(L) - 1) :
                   /\ mem[L[k + 1]].prev = L[k]
                   /\ L[k + 1] = L[k] + MEMORY_NODE_SIZE + SizeOf(L[k])

\* C5: the payloads [p, p + size) of two live allocations do not overlap, and
\* no live payload overlaps a region header [n, n + header).
C5_LivePayloadsDisjoint ==
    \A p \in DOMAIN live :
        LET p_end == p + SizeOf(p - MEMORY_NODE_SIZE) IN
        /\ \A q \in DOMAIN live \ {p} :
               \/ p_end <= q
               \/ q + SizeOf(q - MEMORY_NODE_SIZE) <= p
        /\ \A n \in DOMAIN mem :
               \/ n + MEMORY_NODE_SIZE <= p
               \/ p_end <= n

\* two live allocations are neighbours in one block, the second made by a split
C5_Witness ==
    \E p \in DOMAIN live : \E q \in DOMAIN live :
        /\ q = p + SizeOf(p - MEMORY_NODE_SIZE) + MEMORY_NODE_SIZE
        /\ mem[q - MEMORY_NODE_SIZE].next # NULL

\* C6: after a successful allocate(b) returning p, the header at p - header is
\* a region of the serving block's spatial list, its size is >= b and its
\* used bit is set.
C6_AllocatedRegion ==
    (last.op = "allocate" /\ last.status = "ok") =>
        LET n == last.ptr - MEMORY_NODE_SIZE IN
        /\ last.ptr # NULL
        /\ last.index \in Provisioned
        /\ n \in Regions(last.index)
        /\ SizeOf(n) >= last.bytes
        /\ ~is_free(mem[n].value)

\* an allocation took a region whole, larger than the request
C6_Witness ==
    /\ last.op = "allocate"
    /\ last.status = "ok"
    /\ SizeOf(last.ptr - MEMORY_NODE_SIZE) > last.bytes

\* C7: when every allocated pointer has been released, every provisioned
\* block is a single free region of payload capacity - header.
C7_FullCoalescing ==
    DOMAIN live = {} =>
        \A i \in Provisioned :
            /\ Len(SpatialList(i)) = 1
            /\ is_free(mem[SpatialList(i)[1]].value)
            /\ SizeOf(SpatialList(i)[1]) = BlockSize - MEMORY_NODE_SIZE

\* C7 for the blocks that hold a mapping
C7_MappedBlocksFullCoalescing ==
    DOMAIN live = {} =>
        \A i \in Provisioned :
            blocks[i].head # NULL =>
                /\ Len(SpatialList(i)) = 1
                /\ is_free(mem[SpatialList(i)[1]].value)
                /\ SizeOf(SpatialList(i)[1]) = BlockSize - MEMORY_NODE_SIZE

\* C8: an allocate(b) served from an already provisioned block takes a free
\* region whose size is the minimum of the sizes >= b of all free regions of
\* all provisioned blocks.
C8_BestFit ==
    [][(last'.op = "allocate" /\ last'.status = "ok"
            /\ last'.index <= current_block_index) =>
        LET n == last'.ptr - MEMORY_NODE_SIZE IN
        /\ n \in FreeRegions(last'.index)
        /\ SizeOf(n) \in FittingSizes(last'.bytes)
        /\ \A sz \in FittingSizes(last'.bytes) : SizeOf(n) <= sz]_vars

\* block 0 served the request although block 1 has a larger free region
\* that fits it too
C8_Witness ==
    /\ last.op = "allocate"
    /\ last.status = "ok"
    /\ last.index = 0
    /\ current_block_index >= 1
    /\ \E f \in FreeRegions(1) : SizeOf(f) > SizeOf(last.ptr - MEMORY_NODE_SIZE)

C10_OversizedProvisionsNothing ==
    [][(last'.op = "allocate" /\ last'.status # "bad_alloc"
            /\ last'.bytes + MEMORY_NODE_SIZE > BlockSize) =>
        (last'.ptr = NULL /\ current_block_index' = current_block_index)]_vars

\* C11: whenever allocate returns null, the pool after the call is the pool
\* before it: same current_block_index, and for every block up to it the same
\* spatial list (addresses, sizes, used flags) and the same set of regions in
\* its tree.
C11_NullLeavesPoolUnchanged ==
    [][(last'.op = "allocate" /\ last'.status = "null") =>
        PoolView(Pool') = PoolView(Pool)]_vars

\* C11 for the calls that do not reach the Block constructor
C11_NullWithoutProvisioning ==
    [][(last'.op = "allocate" /\ last'.status = "null"
            /\ ~calls_mmap(Pool, last'.bytes)) =>
        PoolView(Pool') = PoolView(Pool)]_vars

\* C12: allocate(0) ends with std::invalid_argument, returns no pointer and
\* leaves current_block_index and every block's spatial list and tree as they
\* were.
C12_ZeroBytesRejected ==
    [][(last'.op = "allocate" /\ last'.bytes = 0) =>
        /\ last'.status = "invalid_argument"
        /\ last'.ptr = NULL
        /\ PoolView(Pool') = PoolView(Pool)]_vars

\* allocate(0) was rejected by a pool with two blocks and live allocations
C12_Witness ==
    /\ last.op = "allocate"
    /\ last.bytes = 0
    /\ last.status = "invalid_argument"
    /\ current_block_index >= 1
    /\ DOMAIN live # {}

\* block i's address range as BlocksContainer::deallocate computes it holds ptr
InRangeOf(i, ptr) == blocks[i].head <= ptr /\ ptr < blocks[i].head + BlockSize

C14_FailedMappingLeavesPoolUnchanged ==
    [][(last'.op = "allocate" /\ last'.status = "bad_alloc") =>
        /\ current_block_index' = current_block_index
        /\ PoolView(Pool') = PoolView(Pool)]_vars

\* C14 without the watermark: the blocks that were provisioned before the
\* failed call are unchanged
C14_FailedMappingLeavesOldBlocksUnchanged ==
    [][(last'.op = "allocate" /\ last'.status = "bad_alloc") =>
        /\ last'.ptr = NULL
        /\ \A i \in Provisioned : ArenaView(Pool', i) = ArenaView(Pool, i)]_vars

\* C15: when allocate(k) is served by a block that was provisioned before the
\* call and the pointer is released at once, the serving block has the same
\* spatial list (addresses, sizes, used flags) and the same set of regions in
\* its tree as before the allocate.
C15_AllocateReleaseRoundTrip ==
    [][(last'.op = "allocate" /\ last'.status = "ok"
            /\ last'.index <= current_block_index) =>
        ArenaView(BlocksContainer_deallocate(Pool', last'.ptr, last'.bytes), last'.index)
            = ArenaView(Pool, last'.index)]_vars

\* the allocation split the free region after a used one, so the release
\* finds a free successor to merge with and a used predecessor to leave alone
C15_Witness ==
    /\ last.op = "allocate"
    /\ last.status = "ok"
    /\ last.index = 0
    /\ LET n == last.ptr - MEMORY_NODE_SIZE IN
       /\ mem[n].prev # NULL
       /\ mem[n].next # NULL
       /\ ~is_free(mem[mem[n].prev].value)
       /\ is_free(mem[mem[n].next].value)

\* C16: when allocate(b) takes a free region n of payload size s, it splits
\* exactly when s >= b + MEMORY_NODE_SIZE + 1.  On a split n keeps its address,
\* its size becomes b, and a new free region of size s - b - MEMORY_NODE_SIZE
\* at n + MEMORY_NODE_SIZE + b becomes its spatial successor and a node of the
\* tree.  Otherwise no region is created, n is used whole and
\* s - b <= MEMORY_NODE_SIZE.  A region of a block provisioned by the same call
\* is the one free region of the new block.
C16_SplitPolicy ==
    [][(last'.op = "allocate" /\ last'.status = "ok") =>
        LET n == last'.ptr - MEMORY_NODE_SIZE
            b == last'.bytes
            s == IF n \in DOMAIN mem THEN SizeOf(n) ELSE BlockSize - MEMORY_NODE_SIZE
            old_next == IF n \in DOMAIN mem THEN mem[n].next ELSE NULL
            t == n + MEMORY_NODE_SIZE + b
        IN  /\ n \in DOMAIN mem => is_free(mem[n].value)
            /\ ~is_free(mem'[n].value)
            /\ IF s >= b + MEMORY_NODE_SIZE + 1
               THEN /\ get_actual_value(mem'[n].value) = b
                    /\ t \notin DOMAIN mem
                    /\ DOMAIN mem' = DOMAIN mem \cup {n, t}
                    /\ mem'[n].next = t
                    /\ mem'[t].prev = n
                    /\ mem'[t].next = old_next
                    /\ old_next # NULL => mem'[old_next].prev = t
                    /\ is_free(mem'[t].value)
                    /\ get_actual_value(mem'[t].value) = s - b - MEMORY_NODE_SIZE
                    /\ t \in tree_nodes(mem', blocks'[last'.index].rb_tree,
                                        Cardinality(DOMAIN mem'))
               ELSE /\ DOMAIN mem' = DOMAIN mem \cup {n}
                    /\ get_actual_value(mem'[n].value) = s
                    /\ mem'[n].next = old_next
                    /\ s - b <= MEMORY_NODE_SIZE]_vars

\* both edges of the test: the last allocation split off a remainder of one
\* byte, and a live region was taken whole with exactly MEMORY_NODE_SIZE bytes
\* to spare
C16_Witness ==
    /\ last.op = "allocate"
    /\ last.status = "ok"
    /\ LET n == last.ptr - MEMORY_NODE_SIZE IN
       /\ SizeOf(n) = last.bytes
       /\ mem[n].next # NULL
       /\ is_free(mem[mem[n].next].value)
       /\ SizeOf(mem[n].next) = 1
    /\ \E p \in DOMAIN live : SizeOf(p - MEMORY_NODE_SIZE) = live[p].bytes + MEMORY_NODE_SIZE

\* C17: when the smallest sufficient size is offered by free regions of
\* several provisioned blocks, allocate takes the region of the block with
\* the lowest index: no block below the serving one has a free region of the
\* size taken.
C17_LowestIndexOnTies ==
    [][(last'.op = "allocate" /\ last'.status = "ok"
            /\ last'.index <= current_block_index) =>
        \A j \in 0..(last'.index - 1) : \A f \in FreeRegions(j) :
            SizeOf(f) # SizeOf(last'.ptr - MEMORY_NODE_SIZE)]_vars

\* both blocks were one free region of the same size; block 0 served the
\* request and block 1 still is one free region
C17_Witness ==
    /\ last.op = "allocate"
    /\ last.status = "ok"
    /\ last.index = 0
    /\ current_block_index >= 1
    /\ blocks[1].head # NULL
    /\ LET n == last.ptr - MEMORY_NODE_SIZE IN
       /\ n = blocks[0].head
       /\ mem[n].next # NULL
       /\ mem[mem[n].next].next = NULL
       /\ is_free(mem[mem[n].next].value)
       /\ SizeOf(blocks[1].head) = SizeOf(n) + MEMORY_NODE_SIZE + SizeOf(mem[n].next)
    /\ Len(SpatialList(1)) = 1
    /\ FreeRegions(1) = Regions(1)

\* C18: in every step current_block_index does not decrease, grows by at most
\* one, changes only in an allocate for whose request no block up to the old
\* index has a free region of sufficient size, and stays within
\* 0..MaxNumBlocks - 1; a block up to the index keeps its head and its size.
C18_ProvisioningDiscipline ==
    [][/\ current_block_index' >= current_block_index
       /\ current_block_index' <= current_block_index + 1
       /\ current_block_index' # current_block_index =>
              (last'.op = "allocate" /\ FittingSizes(last'.bytes) = {})
       /\ current_block_index \in 0..(MaxNumBlocks - 1)
       /\ current_block_index' \in 0..(MaxNumBlocks - 1)
       /\ \A i \in Provisioned :
              /\ blocks'[i].head = blocks[i].head
              /\ blocks'[i].size = blocks[i].size]_vars

\* the last slot was provisioned and served the request while block 0 has
\* free regions, all too small for it
C18_Witness ==
    /\ last.op = "allocate"
    /\ last.status = "ok"
    /\ last.index = MaxNumBlocks - 1
    /\ current_block_index = MaxNumBlocks - 1
    /\ FreeRegions(0) # {}
    /\ \A f \in FreeRegions(0) : SizeOf(f) < last.bytes

\* the blocks up to current_block_index whose range holds the whole payload
\* of the live pointer p
HoldingBlocks(p) ==
    {i \in Provisioned :
        /\ blocks[i].head <= p
        /\ p + SizeOf(p - MEMORY_NODE_SIZE) <= blocks[i].head + BlockSize}

\* every live payload lies in the range of exactly one block, the one whose
\* allocate returned the pointer, and in no part of any other block's range
C19_LiveInOneArena ==
    \A p \in DOMAIN live :
        /\ HoldingBlocks(p) = {live[p].index}
        /\ \A i \in Provisioned \ {live[p].index} :
               \A a \in {p, p + SizeOf(p - MEMORY_NODE_SIZE) - 1} : ~InRangeOf(i, a)

\* C19: every live allocation lies fully within the address range of exactly
\* one block up to current_block_index, and deallocate(p, _) of a live
\* pointer p is carried out by that block, the one whose allocate returned p.
C19_ReleaseGoesToServingArena ==
    [][/\ C19_LiveInOneArena
       /\ C19_LiveInOneArena'
       /\ (last'.op = "deallocate" /\ last'.ptr \in DOMAIN live) =>
              /\ last'.status = "ok"
              /\ last'.index = live[last'.ptr].index]_vars

\* block 1, mapped below block 0, carried out a release while both blocks
\* hold live allocations
C19_Witness ==
    /\ last.op = "deallocate"
    /\ last.status = "ok"
    /\ last.index = 1
    /\ blocks[1].head < blocks[0].head
    /\ \E p \in DOMAIN live : live[p].index = 0
    /\ \E q \in DOMAIN live : live[q].index = 1

\* block i of pool P is one region at its head: free, of payload size
\* capacity - MEMORY_NODE_SIZE, without spatial neighbours, and the black root
\* and only node of the block's tree
FreshArena(P, i) ==
    /\ P.blocks[i].head # NULL
    /\ P.blocks[i].head \in DOMAIN P.mem
    /\ ArenaView(P, i) =
           [base |-> P.blocks[i].head,
            capacity |-> BlockSize,
            list |-> <<[addr |-> P.blocks[i].head,
                        size |-> BlockSize - MEMORY_NODE_SIZE,
                        used |-> FALSE]>>,
            free |-> {P.blocks[i].head}]
    /\ P.mem[P.blocks[i].head].prev = NULL
    /\ P.mem[P.blocks[i].head].next = NULL
    /\ P.blocks[i].rb_tree = P.blocks[i].head
    /\ is_black(P.mem[P.blocks[i].head].value)
    /\ P.mem[P.blocks[i].head].parent = NULL
    /\ P.mem[P.blocks[i].head].left = NULL
    /\ P.mem[P.blocks[i].head].right = NULL

\* what mmap returned in a step that provisioned a block
MmapResultOf(blk) == IF blk.head = NULL THEN MAP_FAILED ELSE blk.head

C20_MappedArenasStartAsOneFreeRegion ==
    [][/\ last.op = "construct" =>
              /\ current_block_index = 0
              /\ FreshArena(Pool, 0)
              /\ \A i \in 1..(MaxNumBlocks - 1) : blocks[i] = EmptyBlock
       /\ (current_block_index' > current_block_index
               /\ blocks'[current_block_index'].head # NULL) =>
              FreshArena(provision(Pool, MmapResultOf(blocks'[current_block_index'])),
                         current_block_index')]_vars

\* the pool after deallocate(p, _) and then deallocate(q, _)
ReleaseBoth(P, p, q) ==
    BlocksContainer_deallocate(BlocksContainer_deallocate(P, p, 0), q, 0)

\* the pools rpq and rqp left by the two orders of release of the regions a
\* and b, a below b, are the same to the client, and a and b are joined
\* when they are neighbours between used regions
SameAfterBoth(rpq, rqp, a, b) ==
    /\ PoolView(rpq) = PoolView(rqp)
    /\ (/\ mem[a].next = b
        /\ mem[a].prev # NULL => ~is_free(mem[mem[a].prev].value)
        /\ mem[b].next # NULL => ~is_free(mem[mem[b].next].value)) =>
           RegionView(rqp.mem, a) =
               [addr |-> a,
                size |-> SizeOf(a) + SizeOf(b) + MEMORY_NODE_SIZE,
                used |-> FALSE]

\* C21: for any two distinct live pointers p and q, deallocate(p) then
\* deallocate(q) and deallocate(q) then deallocate(p) leave the same
\* current_block_index, the same spatial lists (addresses, sizes, used flags)
\* and the same sets of regions in the trees; when p and q are neighbours
\* between used regions, both orders leave one free region at the first
\* one's address of payload size(p) + size(q) + MEMORY_NODE_SIZE.
C21_ReleaseOrderIrrelevant ==
    \A p \in DOMAIN live : \A q \in {x \in DOMAIN live : x > p} :
        SameAfterBoth(ReleaseBoth(Pool, p, q), ReleaseBoth(Pool, q, p),
                      p - MEMORY_NODE_SIZE, q - MEMORY_NODE_SIZE)

\* A, B and C are live and consecutive: releasing A and B in either order
\* must join them in front of the used C
C21_Witness ==
    \E p \in DOMAIN live : \E q \in DOMAIN live \ {p} : \E r \in DOMAIN live \ {p, q} :
        /\ mem[p - MEMORY_NODE_SIZE].next = q - MEMORY_NODE_SIZE
        /\ mem[q - MEMORY_NODE_SIZE].next = r - MEMORY_NODE_SIZE

\* deallocate of the pointer the outcome r of an allocate returned
release_returned(r, bytes) == BlocksContainer_deallocate(r, r.ptr, bytes)

\* the pool of ScenarioCapacity after allocate(800), the release of that
\* pointer and allocate(900); none of the three calls reaches mmap
AfterScenarioPrefix ==
    BlocksContainer_allocate(
        release_returned(
            BlocksContainer_allocate(NewPool(ScenarioCapacity, FirstMapAddr),
                                     800, MAP_FAILED),
            800),
        900, MAP_FAILED)

\* C22: in a pool of two blocks of 1024 bytes, after allocate(800), release of
\* that pointer and allocate(900), allocate(100) is served from the free tail
\* of block 0 and block 1 is not provisioned.
C22_TailServesNextRequest ==
    [][(PoolView(Pool) = PoolView(AfterScenarioPrefix)
            /\ last'.op = "allocate" /\ last'.bytes = 100) =>
        /\ last'.status = "ok"
        /\ last'.index = 0
        /\ current_block_index' = 0]_vars

\* C22 as the code behaves: after the three calls block 0 is the used region
\* of 900 bytes and a free tail of 1024 - 2 * MEMORY_NODE_SIZE - 900 = 28
\* bytes; allocate(100) fits nowhere, provisions block 1 and, when the mapping
\* succeeds, is served from the base of block 1; the tail stays free.
C22_TailTooSmallForNextRequest ==
    [][(PoolView(Pool) = PoolView(AfterScenarioPrefix)
            /\ last'.op = "allocate" /\ last'.bytes = 100) =>
        /\ RegionsView(Pool, SpatialList(0)) =
               <<[addr |-> blocks[0].head, size |-> 900, used |-> TRUE],
                 [addr |-> blocks[0].head + MEMORY_NODE_SIZE + 900,
                  size |-> ScenarioCapacity - 2 * MEMORY_NODE_SIZE - 900,
                  used |-> FALSE]>>
        /\ current_block_index' = 1
        /\ last'.status \in {"ok", "bad_alloc"}
        /\ last'.status = "ok" =>
               /\ last'.index = 1
               /\ last'.ptr = blocks'[1].head + MEMORY_NODE_SIZE
        /\ ArenaView(Pool', 0) = ArenaView(Pool, 0)]_vars

\* the 900 bytes live at the base of block 0, the 100 bytes at the base of
\* block 1, and the tail of block 0 is free
C22_Witness ==
    /\ BlockSize = ScenarioCapacity
    /\ last.op = "allocate"
    /\ last.bytes = 100
    /\ last.status = "ok"
    /\ last.index = 1
    /\ DOMAIN live = {blocks[0].head + MEMORY_NODE_SIZE, last.ptr}
    /\ live[blocks[0].head + MEMORY_NODE_SIZE].bytes = 900
    /\ last.ptr = blocks[1].head + MEMORY_NODE_SIZE
    /\ Cardinality(FreeRegions(0)) = 1

\* every value passed as bytes in the release of p gives the outcome r
AllHintsGive(r, p) ==
    \A n \in Hints(live[p].bytes) : BlocksContainer_deallocate(Pool, p, n) = r

\* C24: for every live pointer p, deallocate(p, n) from the same state ends
\* the same way and leaves the same memory, blocks and current_block_index
\* for every value n passed as bytes: each gives the outcome of the byte
\* count p was allocated with, so any two give the same.
C24_ReleaseIgnoresBytes ==
    \A p \in DOMAIN live :
        AllHintsGive(BlocksContainer_deallocate(Pool, p, live[p].bytes), p)

\* a live region was taken whole, so the size in its header differs from
\* every value the client may pass, and another live region has a free
\* successor whose size the merge adds
C24_Witness ==
    /\ \E p \in DOMAIN live : SizeOf(p - MEMORY_NODE_SIZE) \notin Hints(live[p].bytes)
    /\ \E q \in DOMAIN live :
           /\ mem[q - MEMORY_NODE_SIZE].next # NULL
           /\ is_free(mem[mem[q - MEMORY_NODE_SIZE].next].value)

\* the keys a client looks up: every key of a node, one below and one above
LookupKeys == 0..(MaxTreeNodes + 1)

\* the sizes of the nodes of the tree that are not less than key
SizesNotLess(key) == {get_value(mem[n].value) : n \in {x \in InTree : get_value(mem[x].value) >= key}}

\* C25: for every tree reached by inserts and removes and every key,
\* lower_bound with the comparator a <= b returns null iff no node has
\* size >= key, and otherwise a node of the tree whose size is the minimum
\* of the sizes >= key (so a node of size exactly key when there is one).
C25_LowerBoundIsMultisetLowerBound ==
    \A key \in LookupKeys :
        LET r == lower_bound(mem, blocks[0].rb_tree, key, "less_equal") IN
        /\ (r = NULL) <=> (SizesNotLess(key) = {})
        /\ r # NULL =>
               /\ r \in InTree
               /\ get_value(mem[r].value) \in SizesNotLess(key)
               /\ \A sz \in SizesNotLess(key) : get_value(mem[r].value) <= sz

\* after a remove the tree holds two nodes of one size and a larger node,
\* and the lookup of that size from the root has to move left to reach it
C25_Witness ==
    /\ last.op = "remove"
    /\ \E a \in InTree : \E b \in InTree \ {a} : \E c \in InTree :
           /\ get_value(mem[a].value) = get_value(mem[b].value)
           /\ get_value(mem[c].value) > get_value(mem[a].value)
           /\ get_value(mem[blocks[0].rb_tree].value) > get_value(mem[a].value)
           /\ get_value(mem[lower_bound(mem, blocks[0].rb_tree,
                                        get_value(mem[a].value), "less_equal")].value)
                  = get_value(mem[a].value)

\* C26: with a comparator that is true iff its first argument is strictly
\* less than its second, lower_bound returns null iff no node has
\* value >= key, and otherwise a node whose value is the smallest >= key.
C26_StrictComparatorLowerBound ==
    \A key \in LookupKeys :
        LET r == lower_bound(mem, blocks[0].rb_tree, key, "less") IN
        /\ (r = NULL) <=> (SizesNotLess(key) = {})
        /\ r # NULL =>
               /\ get_value(mem[r].value) \in SizesNotLess(key)
               /\ \A sz \in SizesNotLess(key) : get_value(mem[r].value) <= sz

\* what the loop computes with the strict comparator: the smallest value
\* strictly greater than key
C26_StrictComparatorUpperBound ==
    \A key \in LookupKeys :
        LET r == lower_bound(mem, blocks[0].rb_tree, key, "less")
            greater == {sz \in SizesNotLess(key) : sz > key} IN
        /\ (r = NULL) <=> (greater = {})
        /\ r # NULL =>
               /\ get_value(mem[r].value) \in greater
               /\ \A sz \in greater : get_value(mem[r].value) <= sz

\* C27: an allocate(b) with b larger than the block size, no mmap failing,
\* returns a non-null pointer, which is then live and can be released.
C27_LargerThanBlockSucceeds ==
    [][(last'.op = "allocate" /\ last'.bytes > BlockSize
            /\ last'.status # "bad_alloc") =>
        /\ last'.status = "ok"
        /\ last'.ptr # NULL
        /\ last'.ptr \in DOMAIN live']_vars

\* what allocate does with such a request: it returns null and maps
\* nothing but, when a slot is left, one more block of BlockSize
C27_LargerThanBlockReturnsNull ==
    [][(last'.op = "allocate" /\ last'.bytes > BlockSize
            /\ last'.status # "bad_alloc") =>
        /\ last'.status = "null"
        /\ last'.ptr = NULL
        /\ live' = live
        /\ \A i \in 0..(MaxNumBlocks - 1) : blocks'[i].size \in {0, BlockSize}]_vars

\* C30: every step that is not the release of the live pointer p leaves the
\* region with header at p - MEMORY_NODE_SIZE in the spatial list of the
\* block that served it, at the same address, with the same payload size
\* and the used bit set, and leaves p live with the same request.
C30_LiveRegionsStayPut ==
    [][\A p \in DOMAIN live \cap DOMAIN live' :
          LET n == p - MEMORY_NODE_SIZE
              L == ListOf(Pool', live[p].index) IN
          /\ live'[p] = live[p]
          /\ RegionView(mem', n) = RegionView(mem, n)
          /\ RegionView(mem', n).used
          /\ \E k \in 1..Len(L) : L[k] = n]_vars

\* a release has just freed the region that follows a live region of the
\* same block, and another live region of that block lies behind it
C30_Witness ==
    /\ last.op = "deallocate"
    /\ last.status = "ok"
    /\ \E p \in DOMAIN live : \E q \in DOMAIN live \ {p} :
           /\ live[p].index = last.index
           /\ live[q].index = last.index
           /\ p < last.ptr
           /\ last.ptr < q
           /\ mem[p - MEMORY_NODE_SIZE].next = last.ptr - MEMORY_NODE_SIZE

\* the client's pointers into the container of the object f
LiveOf(f) == {p \in DOMAIN live : live[p].pool = facades[f].blocks}

\* the outcomes rf and rg of one call made through f and through g are the
\* same, and after it f and g see the same container
SameOutcome(rf, rg, f, g) ==
    /\ rg = rf
    /\ rg.pools[rg.facades[f].blocks] = rg.pools[rg.facades[g].blocks]

PayloadOf(p) == get_actual_value(pools[live[p].pool].mem[p - MEMORY_NODE_SIZE].value)

\* C28: every pointer allocate(count) returned designates a region whose
\* payload size is at least count * sizeof(T), the product taken in the
\* integers.
C28_RegionHoldsCountElements ==
    \A p \in DOMAIN live : PayloadOf(p) >= live[p].count * SizeofT

\* the payload holds the product as std::size_t computes it
C28_RegionHoldsReducedProduct ==
    \A p \in DOMAIN live : PayloadOf(p) >= byte_count(live[p].count)

\* the log of a call that unmapped nothing: the mappings there were are as
\* they were, and a mapping the call made is mapped
UnmapsNothing(log) ==
    /\ \A k \in DOMAIN os : log[k] = os[k]
    /\ \A k \in DOMAIN log \ DOMAIN os : log[k].unmaps = 0

FreeNeighbours(r) ==
    {n \in {mem[r].prev, mem[r].next} \ {NULL} : is_free(mem[n].value)}

\* the sum of MEMORY_NODE_SIZE + payload size over the regions of S
RECURSIVE FootprintOf(_)
FootprintOf(S) ==
    IF S = {} THEN 0
    ELSE LET n == CHOOSE x \in S : TRUE
         IN  MEMORY_NODE_SIZE + SizeOf(n) + FootprintOf(S \ {n})

\* C31: deallocate(p) of the live region r of size s in block i leaves one
\* free region that covers r: at the address of r's predecessor when that
\* was free, at r's address otherwise, of size s plus MEMORY_NODE_SIZE +
\* size(n) for each free neighbour n of r.  The merged regions (r itself
\* when the predecessor survives) are no longer in the spatial list nor in
\* the tree, and the tree holds what it held minus the merged neighbours
\* plus the survivor.
C31_ReleaseArithmetic ==
    [][(last'.op = "deallocate" /\ last'.status = "ok") =>
        LET i == last'.index
            r == last'.ptr - MEMORY_NODE_SIZE
            survivor == IF mem[r].prev # NULL /\ is_free(mem[mem[r].prev].value)
                        THEN mem[r].prev ELSE r
            merged == (FreeNeighbours(r) \cup {r}) \ {survivor}
            L == ListOf(Pool', i)
        IN  /\ RegionView(mem', survivor) =
                   [addr |-> survivor,
                    size |-> SizeOf(r) + FootprintOf(FreeNeighbours(r)),
                    used |-> FALSE]
            /\ \E k \in 1..Len(L) : L[k] = survivor
            /\ \A k \in 1..Len(L) : L[k] \notin merged
            /\ Len(L) = Len(SpatialList(i)) - Cardinality(merged)
            /\ merged \cap DOMAIN mem' = {}
            /\ tree_nodes(mem', blocks'[i].rb_tree, Cardinality(DOMAIN mem'))
                   = (TreeSet(i) \ FreeNeighbours(r)) \cup {survivor}]_vars

\* a release has just joined a region with its free predecessor and its
\* free successor: the survivor lies below the released pointer's header
\* and is larger than the request plus two headers
C31_Witness ==
    /\ last.op = "deallocate"
    /\ last.status = "ok"
    /\ (last.ptr - MEMORY_NODE_SIZE) \notin DOMAIN mem
    /\ \E n \in FreeRegions(last.index) :
           /\ n < last.ptr - MEMORY_NODE_SIZE
           /\ n + MEMORY_NODE_SIZE + SizeOf(n) > last.ptr + last.bytes + MEMORY_NODE_SIZE

\* C32: a successful allocate leaves every block that was provisioned
\* before the call, other than the one that serves it, as it was, and a
\* successful deallocate leaves every provisioned block other than the
\* owner of the pointer as it was: same Block object (head, size, root) and
\* same header, links included, for every region of its spatial list.
C32_OtherArenasUntouched ==
    [][(last'.op \in {"allocate", "deallocate"} /\ last'.status = "ok") =>
        \A i \in Provisioned \ {last'.index} :
            /\ blocks'[i] = blocks[i]
            /\ \A n \in Regions(i) : n \in DOMAIN mem' /\ mem'[n] = mem[n]
            /\ ArenaView(Pool', i) = ArenaView(Pool, i)]_vars

\* a call has just been served by one of two mapped blocks while the other
\* holds a live region and a free one
C32_Witness ==
    /\ last.op \in {"allocate", "deallocate"}
    /\ last.status = "ok"
    /\ current_block_index = 1
    /\ blocks[1].head # NULL
    /\ \E i \in {0, 1} \ {last.index} :
           /\ FreeRegions(i) # {}
           /\ Regions(i) # FreeRegions(i)

\* C33: every region reachable from a tree root has its used bit clear, so
\* the key the tree compares (get_value: the word with only the colour bit
\* masked) is exactly the payload size of the region.
C33_TreeKeysArePayloadSizes ==
    \A i \in Provisioned : \A n \in TreeSet(i) :
        /\ is_free(mem[n].value)
        /\ get_value(mem[n].value) = get_actual_value(mem[n].value)

\* a released region and a split remainder are both in one tree, and one
\* of the tree's nodes is red, so masking the colour bit matters
C33_Witness ==
    /\ last.op = "deallocate"
    /\ last.status = "ok"
    /\ \E i \in Provisioned :
           /\ Cardinality(TreeSet(i)) >= 2
           /\ \E n \in TreeSet(i) : is_red(mem[n].value)
           /\ Regions(i) # FreeRegions(i)

\* C34: byte conservation: in every provisioned block the sum over the
\* regions of the spatial list of (MEMORY_NODE_SIZE + payload size) equals
\* the block capacity.
C34_ByteConservation ==
    \A i \in Provisioned : FootprintOf(Regions(i)) = BlockSize

\* the same sum in every block that holds a mapping
C34_MappedBlocksConserveBytes ==
    \A i \in Provisioned :
        blocks[i].head # NULL =>
            /\ blocks[i].size = BlockSize
            /\ FootprintOf(Regions(i)) = BlockSize

\* what the allocator keeps in a header: used bit, payload size, spatial links
AllocatorFields(m, n) ==
    [used |-> ~is_free(m[n].value), size |-> get_actual_value(m[n].value),
     next |-> m[n].next, prev |-> m[n].prev]

SameAllocatorFields(m1, m2) ==
    /\ DOMAIN m1 = DOMAIN m2
    /\ \A n \in DOMAIN m1 : AllocatorFields(m1, n) = AllocatorFields(m2, n)

\* the caller's nodes as the headers of one block: spatial links in address
\* order, and the used flag set on every node that is not in the tree
AsRegions(m, inTree) ==
    [a \in DOMAIN m |->
        [m[a] EXCEPT !.next = IF a + 1 \in DOMAIN m THEN a + 1 ELSE NULL,
                     !.prev = IF a - 1 \in DOMAIN m THEN a - 1 ELSE NULL,
                     !.value = IF a \in inTree THEN @ ELSE mark_as_used(@)]]

\* remove(root, n) and insert(root, n) leave the allocator's fields of
\* every header of m as they were
KeepsAllocatorFields(m, root, n, inTree) ==
    LET h == [m |-> m, root |-> root]
    IN  IF n \in inTree
        THEN /\ SameAllocatorFields(m, remove(h, n).m)
             /\ SameAllocatorFields(m, insert(remove(h, n), n).m)
        ELSE SameAllocatorFields(m, insert(h, n).m)

\* C35: tree insert and remove never change the used bit, the payload size
\* or the spatial prev/next link of any region.  In every tree that inserts
\* and removes build, with the nodes carrying spatial links and the nodes
\* outside the tree carrying the used flag: removing any node of the tree,
\* inserting it again, and inserting any node that is outside leave these
\* fields of every header as they were.
C35_TreeOperationsKeepAllocatorFields ==
    LET m == AsRegions(mem, InTree)
    IN  \A n \in DOMAIN mem : KeepsAllocatorFields(m, blocks[0].rb_tree, n, InTree)

\* a remove has left a tree whose root has two children, and a node is
\* outside the tree
C35_Witness ==
    /\ last.op = "remove"
    /\ Cardinality(InTree) >= 3
    /\ mem[blocks[0].rb_tree].left # NULL
    /\ mem[blocks[0].rb_tree].right # NULL
    /\ DOMAIN mem # InTree

\* C36: remove is by identity.  remove(z) leaves exactly the nodes that were
\* reachable from the root, minus z: one node fewer, every other node still
\* there with the key it had, equal keys included; removing the last node
\* leaves a null root; insert(n) adds exactly n.
C36_RemoveIsByIdentity ==
    [][/\ last'.op = "remove" =>
            /\ last'.ptr \in InTree
            /\ InTree' = InTree \ {last'.ptr}
            /\ Cardinality(InTree') = Cardinality(InTree) - 1
            /\ (InTree = {last'.ptr}) => blocks'[0].rb_tree = NULL
       /\ last'.op = "insert" =>
            /\ last'.ptr \notin InTree
            /\ InTree' = InTree \cup {last'.ptr}
            /\ Cardinality(InTree') = Cardinality(InTree) + 1
       /\ \A n \in DOMAIN mem :
            /\ n \in DOMAIN mem'
            /\ get_value(mem'[n].value) = get_value(mem[n].value)]_vars

\* a node has been removed from a tree that keeps three or more nodes, one
\* of them with the key of the removed node
C36_Witness ==
    /\ last.op = "remove"
    /\ Cardinality(InTree) >= 3
    /\ \E n \in InTree : get_value(mem[n].value) = get_value(mem[last.ptr].value)
    /\ \E n \in InTree : mem[n].left # NULL /\ mem[n].right # NULL

\* C37: parent links are consistent after any inserts and removes: the
\* root's parent is null, and every non-null child c of a node n reachable
\* from the root has c.parent = n.
C37_ParentLinksConsistent ==
    /\ blocks[0].rb_tree # NULL => mem[blocks[0].rb_tree].parent = NULL
    /\ \A n \in InTree :
           /\ mem[n].left # NULL => mem[mem[n].left].parent = n
           /\ mem[n].right # NULL => mem[mem[n].right].parent = n

\* a remove has left a tree of three levels
C37_Witness ==
    /\ last.op = "remove"
    /\ \E n \in InTree :
           /\ mem[n].parent # NULL
           /\ mem[mem[n].parent].parent # NULL
    /\ \E n \in InTree : mem[n].left # NULL /\ mem[n].right # NULL

\* the two merges of coalesce_nodes in the other order: the predecessor
\* absorbs node first, then the survivor absorbs the successor
coalesce_backward_first(h, node) ==
    LET survivor == IF prev_is_free(h, node) THEN h.m[node].prev ELSE node
        h1 == IF prev_is_free(h, node) THEN merge_prev(h, node) ELSE h
        h2 == IF next_is_free(h1, survivor)
              THEN absorb(remove(h1, h1.m[survivor].next), survivor, h1.m[survivor].next)
              ELSE h1
    IN  insert(h2, survivor)

\* C38: the order of the two merges is irrelevant.  When a region whose
\* predecessor and successor are both free is released, the block is left
\* with the spatial list, the regions (address, size, used bit) and the set
\* of tree nodes that merging backward first and forward second gives.
C38_CoalescingOrderIrrelevant ==
    [][(last'.op = "deallocate" /\ last'.status = "ok") =>
        LET i == last'.index
            r == last'.ptr - MEMORY_NODE_SIZE
            h == mark_node_free(tree_of(Pool, i), r)
        IN  (prev_is_free(h, r) /\ next_is_free(h, r)) =>
                LET b == coalesce_backward_first(h, r)
                    Lb == list_from(b.m, blocks[i].head, Cardinality(DOMAIN b.m))
                    L == ListOf(Pool', i)
                IN  /\ L = Lb
                    /\ \A k \in 1..Len(L) : RegionView(mem', L[k]) = RegionView(b.m, L[k])
                    /\ RegionView(mem', mem[r].prev)
                           = [addr |-> mem[r].prev,
                              size |-> SizeOf(r) + FootprintOf(FreeNeighbours(r)),
                              used |-> FALSE]
                    /\ tree_nodes(mem', blocks'[i].rb_tree, Cardinality(DOMAIN mem'))
                           = tree_nodes(b.m, b.root, Cardinality(DOMAIN b.m))]_vars

\* a release has joined a region with both of its free neighbours while
\* another pointer is live
C38_Witness ==
    /\ last.op = "deallocate"
    /\ last.status = "ok"
    /\ DOMAIN live # {}
    /\ (last.ptr - MEMORY_NODE_SIZE) \notin DOMAIN mem
    /\ \E n \in FreeRegions(last.index) :
           /\ n < last.ptr - MEMORY_NODE_SIZE
           /\ n + SizeOf(n) > last.ptr + last.bytes

\* ------------------------------------------------------------------------
\* The loops of rb-tree.hpp, counted: each operator below follows its loop
\* and gives the number of iterations, or -1 when the loop is still running
\* after fuel iterations.
\* ------------------------------------------------------------------------

one_more(k) == IF k < 0 THEN k ELSE k + 1

both_loops(a, b) == IF a < 0 \/ b < 0 THEN -1 ELSE a + b

RECURSIVE fix_insert_iterations(_, _, _)
fix_insert_iterations(h, z, fuel) ==
    LET p == h.m[z].parent IN
    IF ~(p # NULL /\ is_red(h.m[p].value)) THEN 0
    ELSE IF fuel = 0 THEN -1
    ELSE LET g == h.m[p].parent IN
         IF p = h.m[g].left
         THEN LET y == h.m[g].right IN
              IF y # NULL /\ is_red(h.m[y].value)
              THEN one_more(fix_insert_iterations(recolor_uncle_red(h, y, p, g), g, fuel - 1))
              ELSE IF z = h.m[p].right
                   THEN one_more(fix_insert_iterations(
                            right_rotate_grandparent(
                                recolor_parent_grandparent(left_rotate(h, p), p), p), p, fuel - 1))
                   ELSE one_more(fix_insert_iterations(
                            right_rotate_grandparent(
                                recolor_parent_grandparent(h, z), z), z, fuel - 1))
         ELSE LET y == h.m[g].left IN
              IF y # NULL /\ is_red(h.m[y].value)
              THEN one_more(fix_insert_iterations(recolor_uncle_red(h, y, p, g), g, fuel - 1))
              ELSE IF z = h.m[p].left
                   THEN one_more(fix_insert_iterations(
                            left_rotate_grandparent(
                                recolor_parent_grandparent(right_rotate(h, p), p), p), p, fuel - 1))
                   ELSE one_more(fix_insert_iterations(
                            left_rotate_grandparent(
                                recolor_parent_grandparent(h, z), z), z, fuel - 1))


RECURSIVE fix_remove_iterations(_, _, _, _)
fix_remove_iterations(h, x, x_parent, fuel) ==
    IF ~(x # h.root /\ (x = NULL \/ is_black(h.m[x].value))) THEN 0
    ELSE IF fuel = 0 THEN -1
    ELSE IF x = (IF x_parent # NULL THEN h.m[x_parent].left ELSE NULL)
         THEN LET h1 == red_sibling_on_right(h, x_parent)
                  w == h1.m[x_parent].right
              IN  IF black_or_null(h1.m, h1.m[w].left) /\ black_or_null(h1.m, h1.m[w].right)
                  THEN one_more(fix_remove_iterations(set_red_at(h1, w), x_parent, h1.m[x_parent].parent, fuel - 1))
                  ELSE one_more(fix_remove_iterations(far_nephew_on_right(near_nephew_on_right(h1, x_parent), x_parent),
                           far_nephew_on_right(near_nephew_on_right(h1, x_parent), x_parent).root,
                           x_parent, fuel - 1))
         ELSE LET h1 == red_sibling_on_left(h, x_parent)
                  w == h1.m[x_parent].left
              IN  IF black_or_null(h1.m, h1.m[w].right) /\ black_or_null(h1.m, h1.m[w].left)
                  THEN one_more(fix_remove_iterations(set_red_at(h1, w), x_parent, h1.m[x_parent].parent, fuel - 1))
                  ELSE one_more(fix_remove_iterations(far_nephew_on_left(near_nephew_on_left(h1, x_parent), x_parent),
                           far_nephew_on_left(near_nephew_on_left(h1, x_parent), x_parent).root,
                           x_parent, fuel - 1))


\* while (y->left) y = y->left
RECURSIVE leftmost_iterations(_, _, _)
leftmost_iterations(m, y, fuel) ==
    IF m[y].left = NULL THEN 0
    ELSE IF fuel = 0 THEN -1
    ELSE one_more(leftmost_iterations(m, m[y].left, fuel - 1))

\* mutant of lower_bound_iterations: a loop that does not move left
RECURSIVE lower_bound_iterations_stays(_, _, _, _, _)
lower_bound_iterations_stays(m, current, value, cmp, fuel) ==
    IF current = NULL THEN 0
    ELSE IF fuel = 0 THEN -1
    ELSE IF apply_cmp(cmp, value, get_value(m[current].value))
         THEN one_more(lower_bound_iterations_stays(m, current, value, cmp, fuel - 1))
         ELSE one_more(lower_bound_iterations_stays(m, m[current].right, value, cmp, fuel - 1))

\* while (current): current = current->left or current->right
RECURSIVE lower_bound_iterations(_, _, _, _, _)
lower_bound_iterations(m, current, value, cmp, fuel) ==
    IF current = NULL THEN 0
    ELSE IF fuel = 0 THEN -1
    ELSE IF apply_cmp(cmp, value, get_value(m[current].value))
         THEN one_more(lower_bound_iterations(m, m[current].left, value, cmp, fuel - 1))
         ELSE one_more(lower_bound_iterations(m, m[current].right, value, cmp, fuel - 1))

\* while (x): the descent of insert
RECURSIVE insert_descend_iterations(_, _, _, _)
insert_descend_iterations(m, x, new_val, fuel) ==
    IF x = NULL THEN 0
    ELSE IF fuel = 0 THEN -1
    ELSE IF new_val < get_value(m[x].value)
         THEN one_more(insert_descend_iterations(m, m[x].left, new_val, fuel - 1))
         ELSE one_more(insert_descend_iterations(m, m[x].right, new_val, fuel - 1))

\* the descent and the fix-up loop of insert(root, new_node)
insert_iterations(h, new_node, fuel) ==
    LET new_val == get_value(h.m[new_node].value)
        y == insert_descend(h.m, h.root, NULL, new_val)
    IN  both_loops(
            insert_descend_iterations(h.m, h.root, new_val, fuel),
            fix_insert_iterations(
                make_red_leaf(
                    attach_leaf(set_parent(h, new_node, y), y, new_node, new_val),
                    new_node),
                new_node, fuel))

\* the fix-up loop of remove(root, z), z with at most one child x
remove_one_child_iterations(h, z, x, fuel) ==
    IF is_black(h.m[z].value)
    THEN fix_remove_iterations(transplant(h, z, x), x, h.m[z].parent, fuel)
    ELSE 0

\* the successor search and the fix-up loop of remove(root, z), z with two
\* children
remove_two_children_iterations(h, z, fuel) ==
    LET y == leftmost(h.m, h.m[z].right)
        x == h.m[y].right
        direct == (h.m[y].parent = z)
        x_parent == IF direct THEN y ELSE h.m[y].parent
        h5 == replace_by_successor(
                  IF direct THEN set_parent_if(h, x, y) ELSE detach_successor(h, z, y),
                  z, y)
    IN  both_loops(
            leftmost_iterations(h.m, h.m[z].right, fuel),
            IF is_black(h.m[y].value) THEN fix_remove_iterations(h5, x, x_parent, fuel) ELSE 0)

remove_iterations(h, z, fuel) ==
    IF z = NULL \/ h.root = NULL THEN 0
    ELSE IF h.m[z].left = NULL
         THEN remove_one_child_iterations(h, z, h.m[z].right, fuel)
         ELSE IF h.m[z].right = NULL
              THEN remove_one_child_iterations(h, z, h.m[z].left, fuel)
              ELSE remove_two_children_iterations(h, z, fuel)

\* C39: the loops of the tree terminate.  On every tree that inserts and
\* removes build, the descent and the fix-up loop of each insert, the
\* successor search and the fix-up loop of each remove, and the descent of
\* lower_bound for every key finish, each within as many iterations as there
\* are nodes.
C39_TreeLoopsTerminate ==
    [][LET h == tree_of(Pool, 0)
           fuel == Cardinality(DOMAIN mem)
       IN  /\ last'.op = "insert" =>
                  insert_iterations(h, last'.ptr, fuel) \in 0..(2 * fuel)
           /\ last'.op = "remove" =>
                  remove_iterations(h, last'.ptr, fuel) \in 0..(2 * fuel)
           /\ \A key \in LookupKeys : \A cmp \in {"less_equal", "less"} :
                  lower_bound_iterations(mem', blocks'[0].rb_tree, key, cmp, fuel)
                      \in 0..fuel]_vars

\* an insert has filled a tree in which a lookup descends three levels and
\* the remove of a node with two children searches its successor and runs
\* the fix-up loop
C39_Witness ==
    LET h == tree_of(Pool, 0)
        fuel == Cardinality(DOMAIN mem)
    IN  /\ last.op = "insert"
        /\ InTree = DOMAIN mem
        /\ \E key \in LookupKeys :
               lower_bound_iterations(mem, h.root, key, "less_equal", fuel) >= 3
        /\ \E n \in InTree :
               /\ mem[n].left # NULL
               /\ mem[n].right # NULL
               /\ leftmost_iterations(mem, mem[n].right, fuel) >= 1
               /\ remove_iterations(h, n, fuel) >= 2

\* ------------------------------------------------------------------------
\* The helpers on the metadata word, applied to one header holding any
\* word: hh::rb_tree::set_color_red/set_color_black and
\* Block::mark_as_used/mark_as_free take the word by reference.
\* ------------------------------------------------------------------------

WordInit ==
    \E w \in 0..WordMax :
        /\ mem = (FirstMapAddr :>
                    [value |-> w, next |-> NULL, prev |-> NULL,
                     left |-> NULL, right |-> NULL, parent |-> NULL])
        /\ blocks = [i \in 0..(MaxNumBlocks - 1) |-> EmptyBlock]
        /\ current_block_index = 0
        /\ live = << >>
        /\ last = [op |-> "construct", bytes |-> 0, ptr |-> NULL,
                   status |-> "ok", index |-> 0]
        /\ NoHalloc

\* the state once the helper op has left the word w in the header
WordReturns(op, w) ==
    /\ mem' = [mem EXCEPT ![FirstMapAddr].value = w]
    /\ last' = [op |-> op, bytes |-> 0, ptr |-> FirstMapAddr, status |-> "ok", index |-> 0]
    /\ UNCHANGED <<blocks, current_block_index, live, facades, pools, os>>

WordMarkAsUsed == WordReturns("mark_as_used", mark_as_used(mem[FirstMapAddr].value))

WordMarkAsFree == WordReturns("mark_as_free", mark_as_free(mem[FirstMapAddr].value))

WordSetColorRed == WordReturns("set_color_red", set_color_red(mem[FirstMapAddr].value))

WordSetColorBlack == WordReturns("set_color_black", set_color_black(mem[FirstMapAddr].value))

WordNext == WordMarkAsUsed \/ WordMarkAsFree \/ WordSetColorRed \/ WordSetColorBlack

WordSpec == WordInit /\ [][WordNext]_vars

\* bit k of the word w
BitOf(w, k) == (w \div (2 ^ k)) % 2

\* v is w with bit k set to b and every other bit as it was
OnlyBitSet(w, v, k, b) ==
    /\ BitOf(v, k) = b
    /\ \A j \in 0..(WordBits - 1) : j # k => BitOf(v, j) = BitOf(w, j)

\* the words a neighbour header can hold: each combination of the two flags
NeighbourWords ==
    {SmallReq, COLOR_BIT + SmallReq, USED_BIT + SmallReq, COLOR_BIT + USED_BIT + SmallReq}

\* the header with the word w, followed by a header with the word w2
TwoHeaders(w, w2) ==
    LET a == FirstMapAddr
        b == FirstMapAddr + MEMORY_NODE_SIZE + get_actual_value(w)
    IN  [m |-> (a :> [value |-> w, next |-> b, prev |-> NULL,
                      left |-> NULL, right |-> NULL, parent |-> NULL])
               @@ (b :> [value |-> w2, next |-> NULL, prev |-> a,
                         left |-> NULL, right |-> NULL, parent |-> NULL]),
         root |-> NULL]

\* the word coalescing stores in the survivor is the sum of the two sizes
\* and one header, flags clear, whatever flags the two words carried
CoalesceMasksFlags(w) ==
    \A w2 \in NeighbourWords :
        get_actual_value(w) + get_actual_value(w2) + MEMORY_NODE_SIZE < USED_BIT =>
            absorb(TwoHeaders(w, w2), FirstMapAddr, FirstMapAddr + MEMORY_NODE_SIZE + get_actual_value(w))
                .m[FirstMapAddr].value
              = get_actual_value(w) + get_actual_value(w2) + MEMORY_NODE_SIZE

\* the words a split stores are the request with the used bit and the
\* remainder with no flag, whatever flags the split word carried
SplitMasksFlags(w) ==
    must_split(get_actual_value(w), SmallReq) =>
        LET h == [m |-> (FirstMapAddr :> [mem[FirstMapAddr] EXCEPT !.value = w]), root |-> NULL]
            o == shrink_then_align(h, FirstMapAddr, SmallReq).m
        IN  /\ o[FirstMapAddr].value = USED_BIT + SmallReq
            /\ o[split_address(FirstMapAddr, SmallReq)].value
                   = get_actual_value(w) - SmallReq - MEMORY_NODE_SIZE

\* C40: the encoding of the metadata word.  For every word w, mark_as_used
\* and mark_as_free change only the used bit (to 1 and to 0), set_color_red
\* and set_color_black change only the colour bit (to 1 and to 0), none of
\* them changes get_actual_value(w) = w mod USED_BIT, and is_free(w) holds
\* iff the used bit is 0; the sizes split and coalesce store are computed
\* from the sizes with both flag bits masked off.
C40_WordEncoding ==
    [][LET w == mem[FirstMapAddr].value
           v == mem'[FirstMapAddr].value
       IN  /\ last'.op = "mark_as_used" => OnlyBitSet(w, v, WordBits - 2, 1)
           /\ last'.op = "mark_as_free" => OnlyBitSet(w, v, WordBits - 2, 0)
           /\ last'.op = "set_color_red" => OnlyBitSet(w, v, WordBits - 1, 1)
           /\ last'.op = "set_color_black" => OnlyBitSet(w, v, WordBits - 1, 0)
           /\ get_actual_value(v) = get_actual_value(w)
           /\ get_actual_value(w) = w % (2 ^ (WordBits - 2))
           /\ is_free(w) <=> BitOf(w, WordBits - 2) = 0
           /\ is_free(v) <=> BitOf(v, WordBits - 2) = 0
           /\ CoalesceMasksFlags(w)
           /\ SplitMasksFlags(w)]_vars

\* set_color_red has left a red word that has the used bit set and a size
\* large enough to split
C40_Witness ==
    /\ last.op = "set_color_red"
    /\ ~is_free(mem[FirstMapAddr].value)
    /\ is_red(mem[FirstMapAddr].value)
    /\ must_split(get_actual_value(mem[FirstMapAddr].value), SmallReq)

====
